---- MODULE Spec2Model ----
(***************************************************************************)
(* Request-handler normalization and parameter binding of BlackSheep       *)
(* (blacksheep/server/normalization.py).                                   *)
(*                                                                         *)
(* A callable (a route handler, or a middleware) is normalized once: its   *)
(* signature is inspected, one binder is resolved per parameter following  *)
(* a fixed precedence, and either the callable itself or a synthesized     *)
(* wrapper is installed.  The wrapper is then invoked on requests.         *)
(***************************************************************************)
EXTENDS Integers, Sequences, FiniteSets, TLC

(***************************************************************************)
(* Bounds of the model.                                                    *)
(***************************************************************************)
MaxParams == 2        \* longest signature explored
MaxInvocations == 2   \* requests served by the normalized callable
MaxCalls == 3         \* calls of start, stop and normalize_handlers

(***************************************************************************)
(* Types and annotations.                                                  *)
(*                                                                         *)
(* A type is named by a string.  An annotation is the sequence of its      *)
(* union members (annotation.__args__): <<>> is inspect._empty, one member *)
(* is a plain annotation, two or more members are a Union.  A member that  *)
(* is a bound-value wrapper (FromJSON[T]) carries the members of its inner *)
(* type (<<>> when the wrapper class is used bare) and its name override.  *)
(***************************************************************************)
NoneType == "None"

Member(t, inner, name) == [t |-> t, inner |-> inner, name |-> name]

Plain(t) == Member(t, <<>>, "")

BoundValueTypes == {"FromRoute", "FromJSON", "FromHeader", "FromServices"}

\* the members of a union of plain types
RECURSIVE Plains(_)
Plains(ts) == IF ts = <<>> THEN <<>> ELSE <<Plain(Head(ts))>> \o Plains(Tail(ts))

Empty == <<>>

\* Binder.aliases: reserved parameter names and the binder class of each
Aliases == {"request", "user"}

AliasClass(name) == IF name = "request" THEN "RequestBinder" ELSE "IdentityBinder"

\* Binder.handlers: types with a global binder factory
HandlerTypes == {"Request", "WebSocket"} \cup BoundValueTypes

HandlerClass(t) ==
    CASE t = "Request" -> "RequestBinder"
      [] t = "WebSocket" -> "WebSocketBinder"
      [] t = "FromRoute" -> "RouteBinder"
      [] t = "FromJSON" -> "JSONBinder"
      [] t = "FromHeader" -> "HeaderBinder"
      [] OTHER -> "ServiceBinder"

\* get_binder_by_type: the binder class of a bound-value wrapper
get_binder_by_type(t) == HandlerClass(t)

\* isinstance(binder, BodyBinder)
BodyBinderClasses == {"JSONBinder"}

_types_handled_with_query ==
    {"str", "int", "float", "bool", "list", "set", "tuple",
     "List[str]", "List[int]", "List[float]", "List[bool]",
     "Sequence[str]", "Sequence[int]", "Sequence[float]", "Sequence[bool]",
     "Set[str]", "Set[int]", "Set[float]", "Set[bool]",
     "Tuple[str]", "Tuple[int]", "Tuple[float]", "Tuple[bool]",
     "UUID", "List[UUID]", "Set[UUID]", "Tuple[UUID]",
     "list[str]", "list[int]", "list[float]", "list[bool]", "list[UUID]",
     "tuple[str]", "tuple[int]", "tuple[float]", "tuple[bool]"}

NormalizationErrors ==
    {"NormalizationError", "UnsupportedSignatureError",
     "AsyncGeneratorMissingAnnotationError",
     "AsyncGeneratorMissingResponseTypeError",
     "UnsupportedForwardRefInSignatureError",
     "AmbiguousMethodSignatureError", "RouteBinderMismatch"}

(***************************************************************************)
(* _check_union: Optional[T] is unwrapped to T, any other union raises.    *)
(***************************************************************************)
RECURSIVE FirstNotNone(_)
FirstNotNone(args) ==
    IF Head(args).t = NoneType THEN FirstNotNone(Tail(args)) ELSE Head(args)

IsUnion(args) == Len(args) >= 2

\* _check_union with `and` in place of `or` in the test of line 251
_check_union_And(args) ==
    IF IsUnion(args)
    THEN IF (\A k \in 1..Len(args) : args[k].t # NoneType) /\ Len(args) > 2
         THEN [raises |-> TRUE, optional |-> FALSE, type |-> Head(args)]
         ELSE [raises |-> FALSE, optional |-> TRUE, type |-> FirstNotNone(args)]
    ELSE [raises |-> FALSE, optional |-> FALSE, type |-> Head(args)]

\* lines 233-264
_check_union(args) ==
    IF IsUnion(args)
    THEN IF (\A k \in 1..Len(args) : args[k].t # NoneType) \/ Len(args) > 2
         THEN [raises |-> TRUE, optional |-> FALSE, type |-> Head(args)]
         ELSE [raises |-> FALSE, optional |-> TRUE, type |-> FirstNotNone(args)]
    ELSE [raises |-> FALSE, optional |-> FALSE, type |-> Head(args)]

_is_bound_value_annotation(m) == m.t \in BoundValueTypes

\* the inner type of a wrapper; a bare wrapper class binds str
_get_bound_value_type(m) == IF m.inner = <<>> THEN <<Plain("str")>> ELSE m.inner

(***************************************************************************)
(* Binders.  A binder is an object of the heap; its class decides the      *)
(* source it reads (route, query, body, services ...).                     *)
(***************************************************************************)
empty == "empty"      \* bindings.empty, the no-default marker
_empty == "_empty"    \* inspect._empty

\* Binder.__init__(expected_type, name, implicit, required)
NewBinder(cls, expected_type, name, implicit, required) ==
    [cls |-> cls, expected_type |-> expected_type, parameter_name |-> name,
     implicit |-> implicit, required |-> required, root_required |-> TRUE,
     default |-> empty, services |-> FALSE]

NoBinder == NewBinder("", "", "", FALSE, FALSE)

\* Binder.aliases[name](services)
AliasBinder(name) ==
    [NewBinder(AliasClass(name), "", name, TRUE, TRUE) EXCEPT !.services = TRUE]

\* the instance the container builds for a registered binder class
ResolvedInstance(cls) == NewBinder(cls, "", "", FALSE, TRUE)

RouteBinder(expected_type, name, implicit) ==
    NewBinder("RouteBinder", expected_type, name, implicit, TRUE)

ServiceBinder(service, service_name, implicit) ==
    [NewBinder("ServiceBinder", service, service_name, implicit, TRUE)
        EXCEPT !.services = TRUE]

QueryBinder(expected_type, name, implicit, required) ==
    NewBinder("QueryBinder", expected_type, name, implicit, required)

IdentityBinder(expected_type, name, implicit, required) ==
    NewBinder("IdentityBinder", expected_type, name, implicit, required)

(***************************************************************************)
(* The outcome of resolving one parameter: the binder returned, or the     *)
(* error raised (names: the parameter the message names, "" if none).      *)
(* di: the binder is the container's instance of its class, which the      *)
(* resolution reconfigured in place (also when it then raised).            *)
(***************************************************************************)
Resolved(binder, di, tier) ==
    [error |-> "", names |-> "", binder |-> binder, di |-> di, tier |-> tier]

Raised(error, names, binder, di, tier) ==
    [error |-> error, names |-> names, binder |-> binder, di |-> di, tier |-> tier]

\* lines 267-282 with the service lookup made before the route lookup
_get_parameter_binder_without_annotation_ServiceFirst(services, route, name) ==
    IF name \in services
    THEN ServiceBinder(name, name, TRUE)
    ELSE IF route.present /\ name \in route.param_names
    THEN RouteBinder("str", name, TRUE)
    ELSE QueryBinder("List[str]", name, TRUE, TRUE)

\* lines 267-282
_get_parameter_binder_without_annotation(services, route, name) ==
    IF route.present /\ name \in route.param_names
    THEN RouteBinder("str", name, TRUE)
    ELSE IF name \in services
    THEN ServiceBinder(name, name, TRUE)
    ELSE QueryBinder("List[str]", name, TRUE, TRUE)

\* line 362: binder.required
BoundValueRequired_FromRoot(is_optional, is_root_optional) == ~is_root_optional

BoundValueRequired(is_optional, is_root_optional) == ~is_optional

\* lines 367-372: a route binder must name a path segment of the route
IsRouteBinderMismatch_Unchecked(cls, parameter_name, route) == FALSE

IsRouteBinderMismatch(cls, parameter_name, route) ==
    route.present /\ cls = "RouteBinder" /\ parameter_name \notin route.param_names

\* lines 341-377: the annotation is a bound-value wrapper
BoundValueBinder(parameter, annotation, is_root_optional, services, route, instance) ==
    LET name == parameter.name
        binder_type == get_binder_by_type(annotation.t)
        inner == _check_union(_get_bound_value_type(annotation))
        is_optional == inner.optional
        expected_type == inner.type.t
        parameter_name == IF annotation.name # "" THEN annotation.name ELSE name
        di == binder_type \in services
        b0 == IF di
              THEN [instance EXCEPT !.expected_type = expected_type,
                                    !.parameter_name = parameter_name]
              ELSE NewBinder(binder_type, expected_type, parameter_name, FALSE, TRUE)
        b1 == [b0 EXCEPT !.required = BoundValueRequired(is_optional, is_root_optional)]
        b2 == IF is_root_optional THEN [b1 EXCEPT !.root_required = FALSE] ELSE b1
        b3 == IF b2.cls = "ServiceBinder" THEN [b2 EXCEPT !.services = TRUE] ELSE b2
    IN  IF inner.raises
        THEN Raised("NormalizationError", name, NoBinder, FALSE, "bound")
        ELSE IF IsRouteBinderMismatch(b2.cls, parameter_name, route)
        THEN Raised("RouteBinderMismatch", parameter_name, b2, di, "bound")
        ELSE Resolved(b3, di, "bound")

\* lines 379-397 with the service tier tried before the route tier
ImplicitBinder_ServiceFirst(annotation, name, is_root_optional, services, route) ==
    IF annotation.t \in services
    THEN Resolved(ServiceBinder(annotation.t, "type", TRUE), FALSE, "service")
    ELSE IF route.present /\ name \in route.param_names
    THEN Resolved(RouteBinder(annotation.t, name, TRUE), FALSE, "route")
    ELSE IF annotation.t \in _types_handled_with_query
    THEN Resolved(QueryBinder(annotation.t, name, TRUE, ~is_root_optional),
                  FALSE, "query")
    ELSE IF annotation.t \in {"User", "Identity"}
    THEN Resolved(IdentityBinder(annotation.t, name, TRUE, ~is_root_optional),
                  FALSE, "identity")
    ELSE Raised("ValueError", "", NoBinder, FALSE, "none")

\* lines 379-397: route segment, registered service, simple type, identity
ImplicitBinder(annotation, name, is_root_optional, services, route) ==
    IF route.present /\ name \in route.param_names
    THEN Resolved(RouteBinder(annotation.t, name, TRUE), FALSE, "route")
    ELSE IF annotation.t \in services
    THEN Resolved(ServiceBinder(annotation.t, "type", TRUE), FALSE, "service")
    ELSE IF annotation.t \in _types_handled_with_query
    THEN Resolved(QueryBinder(annotation.t, name, TRUE, ~is_root_optional),
                  FALSE, "query")
    ELSE IF annotation.t \in {"User", "Identity"}
    THEN Resolved(IdentityBinder(annotation.t, name, TRUE, ~is_root_optional),
                  FALSE, "identity")
    ELSE Raised("ValueError", "", NoBinder, FALSE, "none")

\* lines 328-397: the parameter is annotated; instance: the container's
\* instance of the wrapper's binder class, read only when that class is a
\* registered service
AnnotatedBinder(parameter, services, route, instance) ==
    LET name == parameter.name
        original_annotation == parameter.annotation
        root == _check_union(original_annotation)
        is_root_optional == root.optional
        annotation == root.type
    IN  IF root.raises
        THEN Raised("NormalizationError", name, NoBinder, FALSE, "union")
        ELSE IF /\ annotation.t \in HandlerTypes /\ annotation.inner = <<>>
                /\ annotation.t \notin services
                /\ annotation.t \notin BoundValueTypes
        THEN Resolved(NewBinder(HandlerClass(annotation.t), annotation.t, name,
                                FALSE, TRUE), FALSE, "handler")
        ELSE IF _is_bound_value_annotation(annotation)
        THEN BoundValueBinder(parameter, annotation, is_root_optional, services,
                              route, instance)
        ELSE ImplicitBinder(annotation, name, is_root_optional, services, route)

\* lines 312-397 with the annotation looked at before the reserved names
_get_parameter_binder_AnnotationFirst(parameter, services, route, instance) ==
    LET name == parameter.name
    IN  IF parameter.annotation # Empty
        THEN AnnotatedBinder(parameter, services, route, instance)
        ELSE IF name \in Aliases
        THEN Resolved(AliasBinder(name), FALSE, "alias")
        ELSE Resolved(_get_parameter_binder_without_annotation(services, route, name),
                      FALSE, "untyped")

\* lines 312-397
_get_parameter_binder(parameter, services, route, instance) ==
    LET name == parameter.name
    IN  IF name \in Aliases
        THEN Resolved(AliasBinder(name), FALSE, "alias")
        ELSE IF parameter.annotation = Empty
        THEN Resolved(_get_parameter_binder_without_annotation(services, route, name),
                      FALSE, "untyped")
        ELSE AnnotatedBinder(parameter, services, route, instance)

\* the binder left as _get_parameter_binder returns it, no default attached
get_parameter_binder_NoDefault(parameter, services, route, instance) ==
    _get_parameter_binder(parameter, services, route, instance)

\* lines 400-411
get_parameter_binder(parameter, services, route, instance) ==
    LET r == _get_parameter_binder(parameter, services, route, instance)
    IN  IF r.error # "" THEN r
        ELSE [r EXCEPT !.binder.default =
                 IF parameter.default = _empty THEN empty ELSE parameter.default]

(***************************************************************************)
(* Signatures.  ParamInfo(name, annotation, kind, default); the signatures *)
(* explored are the sequences Python accepts: distinct names, kinds in     *)
(* declaration order, no mandatory positional parameter after a default.   *)
(***************************************************************************)
ParamInfo(name, annotation, kind, default) ==
    [name |-> name, annotation |-> annotation, kind |-> kind, default |-> default]

Positional(name, annotation) ==
    ParamInfo(name, annotation, "POSITIONAL_OR_KEYWORD", _empty)

Optional(m) == <<m, Plain(NoneType)>>

Bound(w, ts, name) == Member(w, Plains(ts), name)

AnnotationsOfRequest ==
    {Empty, <<Plain("Request")>>, Plains(<<"int", "str">>)}

AnnotationsOfHandler ==
    {Empty, <<Bound("FromJSON", <<"Foo">>, "")>>}

AnnotationsOfId ==
    {Empty, <<Plain("int")>>, <<Plain("Foo")>>, Plains(<<"int", "str">>),
     <<Bound("FromRoute", <<"int">>, "")>>, <<Bound("FromJSON", <<"Foo">>, "")>>,
     <<Bound("FromHeader", <<"int">>, "")>>}

AnnotationsOfA ==
    {Empty, <<Plain("Request")>>, <<Plain("WebSocket")>>, <<Plain("int")>>,
     Optional(Plain("int")), <<Plain(NoneType), Plain("int")>>,
     Plains(<<"int", "str">>), Plains(<<"int", "str", "None">>),
     <<Plain("Foo")>>, <<Plain("User")>>,
     <<Bound("FromJSON", <<"Foo">>, "")>>,
     <<Bound("FromRoute", <<"int">>, "")>>,
     <<Bound("FromRoute", <<"int">>, "id")>>,
     <<Bound("FromHeader", <<"int", "None">>, "")>>,
     Optional(Bound("FromHeader", <<"int">>, "")),
     <<Bound("FromHeader", <<"int", "str">>, "")>>,
     <<Bound("FromHeader", <<>>, "")>>,
     <<Bound("FromServices", <<"Foo">>, "")>>}

ParamInfos ==
    {Positional("request", a) : a \in AnnotationsOfRequest}
    \cup {Positional("handler", a) : a \in AnnotationsOfHandler}
    \cup {Positional("id", a) : a \in AnnotationsOfId}
    \cup {Positional("a", a) : a \in AnnotationsOfA}
    \cup {ParamInfo("a", Optional(Plain("int")), "POSITIONAL_OR_KEYWORD", "d"),
          ParamInfo("a", <<Plain("Request")>>, "VAR_POSITIONAL", _empty),
          ParamInfo("a", <<Plain("Request")>>, "KEYWORD_ONLY", _empty),
          ParamInfo("id", <<Plain("int")>>, "KEYWORD_ONLY", _empty),
          ParamInfo("id", Empty, "VAR_KEYWORD", _empty)}

KindRank(kind) ==
    CASE kind = "POSITIONAL_OR_KEYWORD" -> 1
      [] kind = "VAR_POSITIONAL" -> 2
      [] kind = "KEYWORD_ONLY" -> 3
      [] OTHER -> 4

WellFormed(params) ==
    /\ \A k, l \in 1..Len(params) : k < l =>
          /\ params[k].name # params[l].name
          /\ KindRank(params[k].kind) <= KindRank(params[l].kind)
          /\ params[k].kind = params[l].kind
                => params[k].kind \in {"POSITIONAL_OR_KEYWORD", "KEYWORD_ONLY"}
          /\ (/\ params[k].kind = "POSITIONAL_OR_KEYWORD"
              /\ params[l].kind = "POSITIONAL_OR_KEYWORD"
              /\ params[k].default # _empty) => params[l].default # _empty

Signatures ==
    {params \in UNION {[1..n -> ParamInfos] : n \in 0..MaxParams} : WellFormed(params)}

\* a callable: its signature, whether it is a coroutine function, and
\* whether it is an object whose __call__ is one
Methods ==
    {m \in [params : Signatures, coroutine : BOOLEAN, call_coroutine : BOOLEAN] :
        ~(m.coroutine /\ m.call_coroutine)}

\* the parameters of the callables that go on to serve requests
ServedParamInfos ==
    {Positional("request", <<Plain("Request")>>),
     Positional("handler", Empty),
     Positional("id", <<Plain("int")>>),
     Positional("id", <<Bound("FromHeader", <<"int">>, "")>>),
     Positional("a", Optional(Plain("int"))),
     ParamInfo("a", Optional(Plain("int")), "POSITIONAL_OR_KEYWORD", "d"),
     Positional("a", <<Bound("FromHeader", <<"int", "None">>, "")>>)}

ServedSignatures ==
    {<<>>} \cup {<<p>> : p \in ServedParamInfos}
    \cup {s \in {<<p, q>> : p, q \in ServedParamInfos} : WellFormed(s)}

ServedMethods ==
    [params : ServedSignatures, coroutine : {TRUE}, call_coroutine : {FALSE}]

\* route.param_names; the route is None when a middleware is normalized
NoRoute == [present |-> FALSE, param_names |-> {}]

Routes == {NoRoute} \cup {[present |-> TRUE, param_names |-> s] : s \in {{}, {"id"}}}

\* the keys the container answers `in` for: names, types, binder classes
ServiceSets ==
    {{}, {"id", "Foo"}, {"Request", "JSONBinder", "HeaderBinder"},
     {"id", "Foo", "JSONBinder", "RouteBinder"}}

BinderClasses == {"RouteBinder", "JSONBinder", "HeaderBinder", "ServiceBinder"}

_next_handler_binder == 0

(***************************************************************************)
(* State.                                                                  *)
(***************************************************************************)
VARIABLES
    method,         \* the callable being normalized (route.handler / middleware)
    route,          \* its route, NoRoute for a middleware
    services,       \* the keys registered in the container
    pc,             \* "start", "binders", "done", "failed"
    i,              \* the next parameter of the loop of _get_binders_for_function
    binders,        \* the binder list built so far: heap ids, 0 the placeholder
    body_binder,    \* the body binder already claimed, 0 when none
    heap,           \* the binder objects, by id
    singletons,     \* the container's instance of each binder class, 0 when none
    error,          \* the exception normalization raised
    normalized,     \* what normalization returned
    inv_pc,         \* the running invocation: "idle", "binding", "continue"
    inv_j,          \* the next binder of the running invocation
    inv_values,     \* the values it resolved so far
    inv_started,    \* the positions whose get_parameter it has called so far
    request_reads,  \* how many times invocations read the request
    method_calls,   \* the argument lists the original callable was called with
    next_calls,     \* how many times a wrapper called the next handler itself
    raised_calls,   \* invocations ended by a binder that raised
    responses,      \* how each completed invocation ended, oldest first
    served,         \* invocations completed
    entered,        \* invocations begun: the last request that came in
    inv_request,    \* the request the running invocation was called with
    inv_sources,    \* the request each get_parameter of it was called with
    suspended,      \* the invocations waiting at an await
    started,        \* Application.started
    app_pc,         \* "idle", "normalize_handlers", "configure_middlewares"
    in_start,       \* normalize_handlers is running inside start
    calls,          \* calls of start, stop and normalize_handlers made
    fns,            \* the function objects, by id
    routes,         \* the routes of the router, by id
    entries,        \* router.iter_with_methods(): a route id per HTTP method
    cursor,         \* the entry the loop of normalize_handlers is at
    configured_handlers,     \* the local set of normalize_handlers
    _middlewares_configured, \* Application._middlewares_configured
    on_start,       \* the handlers of the on_start event, in registration order
    after_start,    \* the handlers of the after_start event
    ev_k,           \* the next handler of the event being fired
    steps,          \* what start has done since `started` last became true
    result,         \* how the last call made on the application ended
    lifespan_pc,    \* _handle_lifespan: "idle", "startup", "running", "done"
    sent,           \* the messages _handle_lifespan has sent
    middlewares,    \* Application.middlewares
    normalized_list,  \* the list _normalize_middlewares is building
    chains,         \* per route, the middleware lists chained around its handler
    _default_headers,          \* whether default headers are configured
    _session_middleware,       \* whether sessions are configured
    _cors_strategy,            \* 0 for None, or the strategy
    _authentication_strategy,
    _authorization_strategy,
    exceptions_handlers,       \* the keys of Application.exceptions_handlers
    policies                   \* the named policies of the CORS strategy

vars == <<method, route, services, pc, i, binders, body_binder, heap, singletons,
          error, normalized, inv_pc, inv_j, inv_values, inv_started,
          request_reads, method_calls, next_calls, raised_calls, responses,
          served, entered, inv_request, inv_sources, suspended, started, app_pc, in_start, calls, fns, routes, entries,
          cursor, configured_handlers, _middlewares_configured, on_start,
          after_start, ev_k, steps, result, lifespan_pc, sent, middlewares,
          normalized_list, chains, _default_headers, _session_middleware,
          _cors_strategy, _authentication_strategy, _authorization_strategy,
          exceptions_handlers, policies>>

config == <<method, route, services>>

norm == <<pc, i, binders, body_binder, heap, singletons, error, normalized>>

in_flight == <<entered, inv_request, inv_sources, suspended>>

invocation == <<inv_pc, inv_j, inv_values, inv_started, request_reads,
                method_calls, next_calls, raised_calls, responses, served,
                in_flight>>

lifecycle == <<on_start, after_start, ev_k, steps, result, lifespan_pc, sent>>

middleware_state == <<middlewares, normalized_list, chains>>

settings == <<_default_headers, _session_middleware, _cors_strategy,
              _authentication_strategy, _authorization_strategy,
              exceptions_handlers, policies>>

application == <<started, app_pc, in_start, calls, fns, routes, entries, cursor,
                 configured_handlers, _middlewares_configured, lifecycle,
                 middleware_state, settings>>

NoError == [type |-> "", names |-> ""]

Error(type, names) == [type |-> type, names |-> names]

\* nothing resolved, nothing served
Fresh ==
    /\ i = 1
    /\ binders = <<>>
    /\ body_binder = 0
    /\ heap = <<>>
    /\ singletons = [c \in BinderClasses |-> 0]
    /\ error = NoError
    /\ normalized = "none"
    /\ inv_pc = "idle"
    /\ inv_j = 1
    /\ inv_values = <<>>
    /\ inv_started = <<>>
    /\ request_reads = 0
    /\ method_calls = <<>>
    /\ next_calls = 0
    /\ raised_calls = 0
    /\ responses = <<>>
    /\ served = 0
    /\ entered = 0
    /\ inv_request = 0
    /\ inv_sources = <<>>
    /\ suspended = <<>>

NoResult ==
    [call |-> "", caller |-> "", raised |-> "", stage |-> "", given |-> 0, value |-> 0]

\* no middleware, nothing configured
NoSettings ==
    /\ middlewares = <<>>
    /\ normalized_list = <<>>
    /\ _default_headers = FALSE
    /\ _session_middleware = FALSE
    /\ _cors_strategy = 0
    /\ _authentication_strategy = 0
    /\ _authorization_strategy = 0
    /\ exceptions_handlers = {}
    /\ policies = {}

\* no event handler registered, no call made, no lifespan scope opened
NoLifecycle ==
    /\ on_start = <<>>
    /\ after_start = <<>>
    /\ ev_k = 1
    /\ steps = <<>>
    /\ result = NoResult
    /\ lifespan_pc = "idle"
    /\ sent = <<>>

\* one callable on its own: no application around it
NoApplication ==
    /\ started = FALSE
    /\ app_pc = "idle"
    /\ in_start = FALSE
    /\ calls = 0
    /\ fns = <<>>
    /\ routes = <<>>
    /\ entries = <<>>
    /\ cursor = 1
    /\ configured_handlers = {}
    /\ _middlewares_configured = FALSE
    /\ NoLifecycle
    /\ NoSettings
    /\ chains = <<>>

InitOf(methods) ==
    /\ method \in methods
    /\ route \in Routes
    /\ services \in ServiceSets
    /\ pc = "start"
    /\ Fresh
    /\ NoApplication

Init == InitOf(Methods)

InitServe == InitOf(ServedMethods)

(***************************************************************************)
(* Normalization.                                                          *)
(***************************************************************************)
params == method.params

params_len == Len(params)

\* the check made of the variadic parameters alone
Unsupported_VariadicOnly(param) == param.kind \in {"VAR_POSITIONAL", "VAR_KEYWORD"}

\* str(param).startswith("*") or param.kind.value == KEYWORD_ONLY
Unsupported(param) ==
    param.kind \in {"VAR_POSITIONAL", "VAR_KEYWORD"} \/ param.kind = "KEYWORD_ONLY"

\* the fast path taken for Request alone
IsRawRequest_RequestOnly(param) == param.annotation = <<Plain("Request")>>

\* params[param_name].annotation in {Request, WebSocket}
IsRawRequest(param) ==
    param.annotation \in {<<Plain("Request")>>, <<Plain("WebSocket")>>}

Fail(type, names) ==
    /\ pc' = "failed"
    /\ error' = Error(type, names)

\* a handler accepted when only its __call__ is a coroutine function
IsCoroutineHandler_OrCallable(m) == m.coroutine \/ m.call_coroutine

\* inspect.iscoroutinefunction(method), line 561
IsCoroutineHandler(m) == m.coroutine

\* lines 623-625: a coroutine function or an object with a coroutine __call__
IsAsyncMiddleware(m) == m.coroutine \/ m.call_coroutine

\* normalize_handler up to the choice made by get_async_wrapper
NormalizeHandler ==
    /\ pc = "start"
    /\ route.present
    /\ IF \E k \in 1..params_len : Unsupported(params[k])
       THEN Fail("UnsupportedSignatureError", "") /\ UNCHANGED normalized
       ELSE IF ~IsCoroutineHandler(method)
       THEN Fail("TypeError", "") /\ UNCHANGED normalized
       ELSE IF params_len = 0
       THEN pc' = "done" /\ normalized' = "no_input_wrapper" /\ UNCHANGED error
       ELSE IF params_len = 1 /\ IsRawRequest(params[1])
       THEN pc' = "done" /\ normalized' = "method" /\ UNCHANGED error
       ELSE pc' = "binders" /\ UNCHANGED <<normalized, error>>
    /\ UNCHANGED <<i, binders, body_binder, heap, singletons>>
    /\ UNCHANGED <<config, invocation, application>>

\* the two names looked for in either order
_is_basic_middleware_signature_AnyOrder(parameters) ==
    /\ Len(parameters) = 2
    /\ \E k, l \in 1..2 :
          /\ parameters[k].name = "request"
          /\ parameters[l].name \in {"handler", "next_handler"}

_is_basic_middleware_signature(parameters) ==
    /\ Len(parameters) = 2
    /\ parameters[1].name = "request"
    /\ parameters[2].name \in {"handler", "next_handler"}

\* normalize_middleware up to the call of get_binders_for_middleware
NormalizeMiddleware ==
    /\ pc = "start"
    /\ ~route.present
    /\ IF ~IsAsyncMiddleware(method)
       THEN Fail("ValueError", "") /\ UNCHANGED normalized
       ELSE IF _is_basic_middleware_signature(params)
       THEN pc' = "done" /\ normalized' = "method" /\ UNCHANGED error
       ELSE pc' = "binders" /\ UNCHANGED <<normalized, error>>
    /\ UNCHANGED <<i, binders, body_binder, heap, singletons>>
    /\ UNCHANGED <<config, invocation, application>>

\* the binder class the container is asked for when the parameter is a wrapper
WrapperBinderClass(parameter) ==
    IF parameter.annotation = Empty \/ _check_union(parameter.annotation).raises
    THEN ""
    ELSE IF _is_bound_value_annotation(_check_union(parameter.annotation).type)
    THEN get_binder_by_type(_check_union(parameter.annotation).type.t)
    ELSE ""

\* services.resolve(binder_type): the one instance of a registered class
Resolve(cls) ==
    IF cls \in BinderClasses /\ singletons[cls] # 0
    THEN heap[singletons[cls]]
    ELSE ResolvedInstance(cls)

\* the name looked at without `not route`
IsNextHandlerParameter_AnyCallable(k) ==
    params[k].name \in {"handler", "next_handler"}

IsNextHandlerParameter(k) ==
    ~route.present /\ params[k].name \in {"handler", "next_handler"}

\* one iteration of the loop of _get_binders_for_function, lines 422-424
NextHandlerPlaceholder ==
    /\ pc = "binders"
    /\ i <= params_len
    /\ IsNextHandlerParameter(i)
    /\ binders' = Append(binders, _next_handler_binder)
    /\ i' = i + 1
    /\ UNCHANGED <<pc, body_binder, heap, singletons, error, normalized>>
    /\ UNCHANGED <<config, invocation, application>>

\* lines 427-431 raising only for a second, different binder object
IsSecondBodyBinder_OtherObject(cls, id, claimed) ==
    cls \in BodyBinderClasses /\ claimed # 0 /\ claimed # id

\* lines 427-431: a second body binder is met
IsSecondBodyBinder(cls, id, claimed) == cls \in BodyBinderClasses /\ claimed # 0

\* one iteration of the loop of _get_binders_for_function, lines 426-432
ResolveParameter ==
    /\ pc = "binders"
    /\ i <= params_len
    /\ ~IsNextHandlerParameter(i)
    /\ LET cls == WrapperBinderClass(params[i])
           r == get_parameter_binder(params[i], services, route, Resolve(cls))
           known == r.di /\ singletons[cls] # 0
           id == IF known THEN singletons[cls] ELSE Len(heap) + 1
           stored == r.di \/ r.error = ""
       IN  /\ heap' = IF ~stored THEN heap
                      ELSE IF known THEN [heap EXCEPT ![id] = r.binder]
                      ELSE Append(heap, r.binder)
           /\ singletons' = IF r.di THEN [singletons EXCEPT ![cls] = id]
                            ELSE singletons
           /\ IF r.error # ""
              THEN Fail(r.error, r.names) /\ UNCHANGED <<binders, body_binder, i>>
              ELSE IF IsSecondBodyBinder(r.binder.cls, id, body_binder)
              THEN Fail("AmbiguousMethodSignatureError", "")
                   /\ UNCHANGED <<binders, body_binder, i>>
              ELSE /\ body_binder' = IF r.binder.cls \in BodyBinderClasses
                                     THEN id ELSE body_binder
                   /\ binders' = Append(binders, id)
                   /\ i' = i + 1
                   /\ UNCHANGED <<pc, error>>
    /\ UNCHANGED normalized
    /\ UNCHANGED <<config, invocation, application>>

\* the binder list is complete: the wrapper closure is returned
BuildWrapper ==
    /\ pc = "binders"
    /\ i > params_len
    /\ pc' = "done"
    /\ normalized' = IF route.present THEN "wrapper" ELSE "middleware_wrapper"
    /\ UNCHANGED <<i, binders, body_binder, heap, singletons, error>>
    /\ UNCHANGED <<config, invocation, application>>

(***************************************************************************)
(* Invocation of the normalized callable on a request.  A value is the id  *)
(* of the binder that resolved it; Request is the request object itself    *)
(* and NextHandler the downstream continuation.  A binder whose source     *)
(* holds no value yields StoredDefault (its default attribute) or None.    *)
(***************************************************************************)
Request == -1

NextHandler == 0

None == -2

StoredDefault == -3

\* Binder.get_parameter when the source lookup yields nothing
get_parameter_missing(binder) ==
    IF binder.required
    THEN [raises |-> TRUE, value |-> None]
    ELSE [raises |-> FALSE,
          value |-> IF binder.default # empty THEN StoredDefault ELSE None]

\* the values collected newest first
Collect_Prepend(values, value) == <<value>> \o values

\* values = [await binder.get_parameter(request) for binder in binders],
\* values.append(...): each value goes to the end of the list
Collect(values, value) == Append(values, value)

\* the wrapper calling the next handler whether or not it was handed over
CallsNextHandler_Always(bs) == TRUE

\* `if _next_handler_binder in binders` is false: the wrapper itself awaits
\* next_handler(request) after the middleware
CallsNextHandler(bs) == \A k \in 1..Len(bs) : bs[k] # _next_handler_binder

\* has the get_parameter of the binder at inv_j started and not completed?
Pending == inv_started # <<>> /\ inv_started[Len(inv_started)] = inv_j

Ends(response) ==
    /\ inv_pc' = "idle"
    /\ responses' = Append(responses, response)
    /\ served' = served + 1

\* the no-input wrapper handing its request on to the handler
NoInputArguments_Request == <<Request>>

\* the arguments the no-input wrapper passes: `await method()`
NoInputArguments == <<>>

\* async def handler(_): return await method()
InvokeNoInputWrapper ==
    /\ pc = "done"
    /\ normalized = "no_input_wrapper"
    /\ served < MaxInvocations
    /\ method_calls' = Append(method_calls, NoInputArguments)
    /\ served' = served + 1
    /\ responses' = Append(responses, "method")
    /\ UNCHANGED <<inv_pc, inv_j, inv_values, inv_started, request_reads,
                   next_calls, raised_calls>>
    /\ UNCHANGED <<config, norm, application>>
    /\ entered' = entered + 1
    /\ UNCHANGED <<inv_request, inv_sources, suspended>>

\* the callable was installed unchanged: the framework calls it directly
InvokeMethod ==
    /\ pc = "done"
    /\ normalized = "method"
    /\ served < MaxInvocations
    /\ method_calls' = Append(method_calls,
                              IF route.present THEN <<Request>>
                              ELSE <<Request, NextHandler>>)
    /\ served' = served + 1
    /\ responses' = Append(responses, "method")
    /\ UNCHANGED <<inv_pc, inv_j, inv_values, inv_started, request_reads,
                   next_calls, raised_calls>>
    /\ UNCHANGED <<config, norm, application>>
    /\ entered' = entered + 1
    /\ UNCHANGED <<inv_request, inv_sources, suspended>>

\* a synthesized wrapper is entered
InvokeWrapper ==
    /\ pc = "done"
    /\ normalized \in {"wrapper", "middleware_wrapper"}
    /\ served < MaxInvocations
    /\ inv_pc = "idle"
    /\ inv_pc' = "binding"
    /\ inv_j' = 1
    /\ inv_values' = <<>>
    /\ inv_started' = <<>>
    /\ UNCHANGED <<request_reads, method_calls, next_calls, raised_calls,
                   responses, served>>
    /\ UNCHANGED <<config, norm, application>>
    /\ entered < MaxInvocations
    /\ entered' = entered + 1
    /\ inv_request' = entered + 1
    /\ inv_sources' = <<>>
    /\ UNCHANGED suspended

\* the request the last invocation begun was called with
RequestRead_Last(own, last) == last

\* binder.get_parameter(request): `request` is the parameter of the wrapper,
\* a local of the invocation
RequestRead(own, last) == own

\* values.append(next_handler), line 605
BindNextHandler ==
    /\ inv_pc = "binding"
    /\ inv_j <= Len(binders)
    /\ binders[inv_j] = _next_handler_binder
    /\ inv_values' = Collect(inv_values, NextHandler)
    /\ inv_j' = inv_j + 1
    /\ UNCHANGED <<inv_pc, inv_started, request_reads, method_calls, next_calls,
                   raised_calls, responses, served>>
    /\ UNCHANGED <<config, norm, application>>
    /\ inv_sources' = Append(inv_sources, inv_request)
    /\ UNCHANGED <<entered, inv_request, suspended>>

\* binder.get_parameter(request) is called and awaited
StartBind ==
    /\ inv_pc = "binding"
    /\ inv_j <= Len(binders)
    /\ binders[inv_j] # _next_handler_binder
    /\ ~Pending
    /\ inv_started' = Append(inv_started, inv_j)
    /\ request_reads' = request_reads + 1
    /\ UNCHANGED <<inv_pc, inv_j, inv_values, method_calls, next_calls,
                   raised_calls, responses, served>>
    /\ UNCHANGED <<config, norm, application>>
    /\ inv_sources' = Append(inv_sources, RequestRead(inv_request, entered))
    /\ UNCHANGED <<entered, inv_request, suspended>>

\* await binder.get_parameter(request) returns a value read from the request
BindValue ==
    /\ inv_pc = "binding"
    /\ Pending
    /\ inv_values' = Collect(inv_values, binders[inv_j])
    /\ inv_j' = inv_j + 1
    /\ UNCHANGED <<inv_pc, inv_started, request_reads, method_calls, next_calls,
                   raised_calls, responses, served>>
    /\ UNCHANGED <<config, norm, application>>
    /\ UNCHANGED in_flight

\* await binder.get_parameter(request) on a request that lacks the value
BindMissing ==
    /\ inv_pc = "binding"
    /\ Pending
    /\ LET r == get_parameter_missing(heap[binders[inv_j]])
       IN  IF r.raises
           THEN /\ Ends("missing")
                /\ raised_calls' = raised_calls + 1
                /\ UNCHANGED <<inv_j, inv_values>>
           ELSE /\ inv_values' = Collect(inv_values, r.value)
                /\ inv_j' = inv_j + 1
                /\ UNCHANGED <<inv_pc, raised_calls, responses, served>>
    /\ UNCHANGED <<inv_started, request_reads, method_calls, next_calls>>
    /\ UNCHANGED <<config, norm, application>>
    /\ UNCHANGED in_flight

\* await binder.get_parameter(request) raises on the value it read: the
\* invocation ends there
BindRaises ==
    /\ inv_pc = "binding"
    /\ Pending
    /\ Ends("binder_error")
    /\ raised_calls' = raised_calls + 1
    /\ UNCHANGED <<inv_j, inv_values, inv_started, request_reads, method_calls,
                   next_calls>>
    /\ UNCHANGED <<config, norm, application>>
    /\ UNCHANGED in_flight

\* await method(*values) returns; a middleware wrapper that did not hand the
\* next handler over goes on to await it
CallMethod ==
    /\ inv_pc = "binding"
    /\ inv_j > Len(binders)
    /\ method_calls' = Append(method_calls, inv_values)
    /\ IF normalized = "middleware_wrapper" /\ CallsNextHandler(binders)
       THEN inv_pc' = "continue" /\ UNCHANGED <<responses, served>>
       ELSE Ends("method")
    /\ UNCHANGED <<inv_j, inv_values, inv_started, request_reads, next_calls,
                   raised_calls>>
    /\ UNCHANGED <<config, norm, application>>
    /\ UNCHANGED in_flight

\* await method(*values) raises: the exception leaves the wrapper
MethodRaises ==
    /\ inv_pc = "binding"
    /\ inv_j > Len(binders)
    /\ method_calls' = Append(method_calls, inv_values)
    /\ Ends("method_error")
    /\ UNCHANGED <<inv_j, inv_values, inv_started, request_reads, next_calls,
                   raised_calls>>
    /\ UNCHANGED <<config, norm, application>>
    /\ UNCHANGED in_flight

\* return await next_handler(request), line 617
CallNextHandler ==
    /\ inv_pc = "continue"
    /\ next_calls' = next_calls + 1
    /\ Ends("next_handler")
    /\ UNCHANGED <<inv_j, inv_values, inv_started, request_reads, method_calls,
                   raised_calls>>
    /\ UNCHANGED <<config, norm, application>>
    /\ UNCHANGED in_flight

\* the locals of the running invocation
Frame ==
    [pc |-> inv_pc, j |-> inv_j, values |-> inv_values, started |-> inv_started,
     request |-> inv_request, sources |-> inv_sources]

Without(frames, k) == [n \in 1..(Len(frames) - 1) |->
                          IF n < k THEN frames[n] ELSE frames[n + 1]]

\* the running invocation is at an await (binder.get_parameter or
\* next_handler) and the event loop leaves it there
Suspend ==
    /\ \/ inv_pc = "binding" /\ Pending
       \/ inv_pc = "continue"
    /\ suspended' = Append(suspended, Frame)
    /\ inv_pc' = "idle"
    /\ UNCHANGED <<inv_j, inv_values, inv_started, request_reads, method_calls,
                   next_calls, raised_calls, responses, served, entered,
                   inv_request, inv_sources>>
    /\ UNCHANGED <<config, norm, application>>

\* the event loop resumes a waiting invocation
Resume ==
    /\ inv_pc = "idle"
    /\ \E k \in 1..Len(suspended) :
          /\ inv_pc' = suspended[k].pc
          /\ inv_j' = suspended[k].j
          /\ inv_values' = suspended[k].values
          /\ inv_started' = suspended[k].started
          /\ inv_request' = suspended[k].request
          /\ inv_sources' = suspended[k].sources
          /\ suspended' = Without(suspended, k)
    /\ UNCHANGED <<request_reads, method_calls, next_calls, raised_calls,
                   responses, served, entered>>
    /\ UNCHANGED <<config, norm, application>>

\* normalization alone: what happens once, at application start
Normalize ==
    \/ NormalizeHandler
    \/ NormalizeMiddleware
    \/ NextHandlerPlaceholder
    \/ ResolveParameter
    \/ BuildWrapper

SpecNormalize == Init /\ [][Normalize]_vars

\* normalization, then requests served by the normalized callable
Next ==
    \/ NormalizeHandler
    \/ NormalizeMiddleware
    \/ NextHandlerPlaceholder
    \/ ResolveParameter
    \/ BuildWrapper
    \/ InvokeNoInputWrapper
    \/ InvokeMethod
    \/ InvokeWrapper
    \/ BindNextHandler
    \/ StartBind
    \/ BindValue
    \/ BindMissing
    \/ BindRaises
    \/ CallMethod
    \/ MethodRaises
    \/ CallNextHandler

Spec == Init /\ [][Next]_vars

\* the same steps, from the callables that go on to serve requests
\* one wrapper and the requests it serves at the same time
ConcurrentParamInfos ==
    {Positional("handler", Empty),
     Positional("id", <<Bound("FromHeader", <<"int">>, "")>>),
     ParamInfo("a", Optional(Plain("int")), "POSITIONAL_OR_KEYWORD", "d"),
     Positional("a", <<Bound("FromHeader", <<"int", "None">>, "")>>)}

ConcurrentMethods ==
    [params : {s \in {<<p, q>> : p, q \in ConcurrentParamInfos} : WellFormed(s)},
     coroutine : {TRUE}, call_coroutine : {FALSE}]

InitConcurrent == InitOf(ConcurrentMethods)

NextConcurrent ==
    \/ NormalizeHandler
    \/ NormalizeMiddleware
    \/ NextHandlerPlaceholder
    \/ ResolveParameter
    \/ BuildWrapper
    \/ InvokeWrapper
    \/ BindNextHandler
    \/ StartBind
    \/ BindValue
    \/ BindMissing
    \/ BindRaises
    \/ CallMethod
    \/ MethodRaises
    \/ CallNextHandler
    \/ Suspend
    \/ Resume

SpecConcurrent == InitConcurrent /\ [][NextConcurrent]_vars

SpecServe == InitServe /\ [][Next]_vars

(***************************************************************************)
(* The application (blacksheep/server/application.py): a route table whose *)
(* handlers are normalized one after another by normalize_handlers, with   *)
(* one container for all of them.  A function object is its signature, the *)
(* function it wraps (0 for a function the user wrote) and, for a          *)
(* synthesized wrapper, the binder list of its closure; a wrapper shows    *)
(* the signature of the function it wraps (functools.wraps).               *)
(***************************************************************************)
Function(m) == [method |-> m, wrapped |-> 0, binders |-> <<>>]

RouteOf(names, h) == [param_names |-> names, handler |-> h]

AppSignatures ==
    {<<>>,
     <<Positional("request", <<Plain("Request")>>)>>,
     <<Positional("id", <<Bound("FromHeader", <<"int">>, "")>>)>>,
     <<Positional("a", <<Bound("FromHeader", <<"int", "None">>, "")>>)>>,
     <<Positional("id", <<Plain("int")>>),
       ParamInfo("a", Optional(Plain("int")), "POSITIONAL_OR_KEYWORD", "d")>>,
     <<Positional("a", <<Plain("Foo")>>)>>}

AppMethods == [params : AppSignatures, coroutine : {TRUE}, call_coroutine : {FALSE}]

AppSegments == {{}, {"id"}}

\* one route, under one HTTP method or two; two routes, each with its own
\* function; two routes with one function
Applications ==
    {[fns |-> <<Function(m)>>, routes |-> <<RouteOf(n, 1)>>, entries |-> e] :
        m \in AppMethods, n \in AppSegments, e \in {<<1>>, <<1, 1>>}}
    \cup {[fns |-> <<Function(m), Function(o)>>,
           routes |-> <<RouteOf(n, 1), RouteOf(n, 2)>>,
           entries |-> <<1, 2>>] : m \in AppMethods, o \in AppMethods, n \in AppSegments}
    \cup {[fns |-> <<Function(m)>>,
           routes |-> <<RouteOf({}, 1), RouteOf({"id"}, 1)>>,
           entries |-> <<1, 2>>] : m \in AppMethods}

AppServiceSets == {{}, {"HeaderBinder", "Foo"}}

InitApp ==
    /\ \E app \in Applications :
          /\ fns = app.fns
          /\ routes = app.routes
          /\ entries = app.entries
    /\ services \in AppServiceSets
    /\ method = [params |-> <<>>, coroutine |-> TRUE, call_coroutine |-> FALSE]
    /\ route = NoRoute
    /\ pc = "idle"
    /\ Fresh
    /\ started = FALSE
    /\ app_pc = "idle"
    /\ in_start = FALSE
    /\ calls = 0
    /\ cursor = 1
    /\ configured_handlers = {}
    /\ _middlewares_configured = FALSE
    /\ NoLifecycle
    /\ NoSettings
    /\ chains = [r \in DOMAIN routes |-> <<>>]

\* the handlers of an event, last registered first
HandlerAt_Reversed(handlers, k) == handlers[Len(handlers) + 1 - k]

\* ApplicationEvent.fire: `for handler in self._handlers`, which __iadd__
\* appends to
HandlerAt(handlers, k) == handlers[k]

Step(step, handler) == [step |-> step, handler |-> handler]

\* the call in progress ends: it returns, or raises at the given stage
Ended(raised, stage) == [result EXCEPT !.raised = raised, !.stage = stage]

\* the reply sent whatever start did
LifespanReply_Complete(raised) == "lifespan.startup.complete"

\* _handle_lifespan, lines 564-571: the message sent once start has ended
LifespanReply(raised) ==
    IF raised # "" THEN "lifespan.startup.failed" ELSE "lifespan.startup.complete"

\* the call in progress ends; when it is the start that _handle_lifespan
\* awaits, the reply is sent next
EndCall(raised, stage) ==
    /\ app_pc' = "idle"
    /\ in_start' = FALSE
    /\ result' = Ended(raised, stage)
    /\ IF result.caller = "lifespan"
       THEN /\ sent' = Append(sent, LifespanReply(raised))
            /\ lifespan_pc' = IF raised # "" THEN "done" ELSE "running"
       ELSE UNCHANGED <<sent, lifespan_pc>>

\* self.normalize_handlers() is entered
EnterNormalizeHandlers(done) ==
    /\ app_pc' = "normalize_handlers"
    /\ cursor' = 1
    /\ configured_handlers' = {}
    /\ steps' = Append(done, Step("normalize_handlers", 0))

\* start(), lines 541-551, called by the given caller
StartCalled(caller) ==
    /\ app_pc = "idle"
    /\ calls < MaxCalls
    /\ calls' = calls + 1
    /\ IF started
       THEN /\ result' = [NoResult EXCEPT !.call = "start", !.caller = caller]
            /\ UNCHANGED <<started, app_pc, in_start, cursor, configured_handlers,
                           ev_k, steps>>
       ELSE /\ started' = TRUE
            /\ in_start' = TRUE
            /\ result' = [NoResult EXCEPT !.call = "start", !.caller = caller]
            /\ IF on_start # <<>>
               THEN /\ app_pc' = "on_start"
                    /\ ev_k' = 1
                    /\ steps' = <<>>
                    /\ UNCHANGED <<cursor, configured_handlers>>
               ELSE EnterNormalizeHandlers(<<>>) /\ UNCHANGED ev_k
    /\ UNCHANGED <<fns, routes, entries, _middlewares_configured, on_start,
                   after_start>>
    /\ UNCHANGED <<config, norm, invocation>>
    /\ UNCHANGED <<middleware_state, settings>>

\* async def start(self), up to its first await
Start ==
    /\ lifespan_pc # "startup"
    /\ StartCalled("user")
    /\ UNCHANGED <<lifespan_pc, sent>>

\* async def stop(self): no on_stop handler raises
Stop ==
    /\ app_pc = "idle"
    /\ lifespan_pc # "startup"
    /\ calls < MaxCalls
    /\ calls' = calls + 1
    /\ started' = FALSE
    /\ result' = [NoResult EXCEPT !.call = "stop", !.caller = "user"]
    /\ UNCHANGED <<app_pc, in_start, fns, routes, entries, cursor,
                   configured_handlers, _middlewares_configured>>
    /\ UNCHANGED <<on_start, after_start, ev_k, steps, lifespan_pc, sent>>
    /\ UNCHANGED <<config, norm, invocation>>
    /\ UNCHANGED <<middleware_state, settings>>

\* normalize_handlers called on its own: configured_handlers = set()
CallNormalizeHandlers ==
    /\ app_pc = "idle"
    /\ calls < MaxCalls
    /\ calls' = calls + 1
    /\ app_pc' = "normalize_handlers"
    /\ in_start' = FALSE
    /\ cursor' = 1
    /\ configured_handlers' = {}
    /\ result' = [NoResult EXCEPT !.call = "normalize_handlers", !.caller = "user"]
    /\ UNCHANGED <<started, fns, routes, entries, _middlewares_configured>>
    /\ UNCHANGED <<on_start, after_start, ev_k, steps, lifespan_pc, sent>>
    /\ UNCHANGED <<config, norm, invocation>>
    /\ UNCHANGED <<middleware_state, settings>>

\* `if route.handler in configured_handlers: continue`
SkipConfigured ==
    /\ app_pc = "normalize_handlers"
    /\ pc = "idle"
    /\ cursor <= Len(entries)
    /\ routes[entries[cursor]].handler \in configured_handlers
    /\ cursor' = cursor + 1
    /\ UNCHANGED <<started, app_pc, in_start, calls, fns, routes, entries,
                   configured_handlers, _middlewares_configured, lifecycle>>
    /\ UNCHANGED <<config, norm, invocation>>
    /\ UNCHANGED <<middleware_state, settings>>

\* normalize_handler(route, self.services, method) is entered
EnterNormalizeHandler ==
    /\ app_pc = "normalize_handlers"
    /\ pc = "idle"
    /\ cursor <= Len(entries)
    /\ routes[entries[cursor]].handler \notin configured_handlers
    /\ method' = fns[routes[entries[cursor]].handler].method
    /\ route' = [present |-> TRUE,
                 param_names |-> routes[entries[cursor]].param_names]
    /\ pc' = "start"
    /\ i' = 1
    /\ binders' = <<>>
    /\ body_binder' = 0
    /\ error' = NoError
    /\ normalized' = "none"
    /\ UNCHANGED <<services, heap, singletons>>
    /\ UNCHANGED <<invocation, application>>

\* normalize_handler returns its argument on the fast path, a new function
\* (the wrapper closure) otherwise
Installed(h, fresh) == IF normalized = "method" THEN h ELSE fresh

\* route.handler = normalize_handler(...);
\* configured_handlers.add(route.handler)
InstallHandler ==
    /\ app_pc = "normalize_handlers"
    /\ pc = "done"
    /\ LET r == entries[cursor]
           h == routes[r].handler
           new == Installed(h, Len(fns) + 1)
       IN  /\ fns' = IF new = Len(fns) + 1
                     THEN Append(fns, [method |-> method, wrapped |-> h,
                                       binders |-> binders])
                     ELSE fns
           /\ routes' = [routes EXCEPT ![r].handler = new]
           /\ configured_handlers' = configured_handlers \cup {new}
    /\ cursor' = cursor + 1
    /\ pc' = "idle"
    /\ UNCHANGED <<started, app_pc, in_start, calls, entries,
                   _middlewares_configured, lifecycle>>
    /\ UNCHANGED <<i, binders, body_binder, heap, singletons, error, normalized>>
    /\ UNCHANGED <<config, invocation>>
    /\ UNCHANGED <<middleware_state, settings>>

\* normalize_handler raises: the exception leaves normalize_handlers, and
\* start when it is the caller
NormalizationRaises ==
    /\ app_pc = "normalize_handlers"
    /\ pc = "failed"
    /\ pc' = "idle"
    /\ EndCall(error.type, "normalize_handlers")
    /\ configured_handlers' = {}
    /\ UNCHANGED <<started, calls, fns, routes, entries, cursor,
                   _middlewares_configured>>
    /\ UNCHANGED <<on_start, after_start, ev_k, steps>>
    /\ UNCHANGED <<i, binders, body_binder, heap, singletons, error, normalized>>
    /\ UNCHANGED <<config, invocation>>
    /\ UNCHANGED <<middleware_state, settings>>

\* the loop is over: configured_handlers.clear(); start goes on to
\* configure_middlewares
HandlersNormalized ==
    /\ app_pc = "normalize_handlers"
    /\ pc = "idle"
    /\ cursor > Len(entries)
    /\ configured_handlers' = {}
    /\ IF in_start
       THEN /\ app_pc' = "configure_middlewares"
            /\ UNCHANGED <<in_start, result, lifespan_pc, sent>>
       ELSE EndCall("", "")
    /\ UNCHANGED <<started, calls, fns, routes, entries, cursor,
                   _middlewares_configured>>
    /\ UNCHANGED <<on_start, after_start, ev_k, steps>>
    /\ UNCHANGED <<config, norm, invocation>>
    /\ UNCHANGED <<middleware_state, settings>>

\* `if self.after_start: await self.after_start.fire()`, or the end of start
EnterAfterStart ==
    IF after_start # <<>>
    THEN /\ app_pc' = "after_start"
         /\ ev_k' = 1
         /\ UNCHANGED <<in_start, result, lifespan_pc, sent>>
    ELSE EndCall("", "") /\ UNCHANGED ev_k

\* ApplicationEvent.fire: `await handler(self.context)` returns, for the
\* next handler of on_start; after the last one start goes on
FireOnStart ==
    /\ app_pc = "on_start"
    /\ ev_k <= Len(on_start)
    /\ IF ev_k < Len(on_start)
       THEN /\ ev_k' = ev_k + 1
            /\ steps' = Append(steps, Step("on_start", HandlerAt(on_start, ev_k)))
            /\ UNCHANGED <<app_pc, cursor, configured_handlers>>
       ELSE /\ EnterNormalizeHandlers(Append(steps, Step("on_start",
                                                         HandlerAt(on_start, ev_k))))
            /\ UNCHANGED ev_k
    /\ UNCHANGED <<started, in_start, calls, fns, routes, entries,
                   _middlewares_configured, on_start, after_start, result,
                   lifespan_pc, sent>>
    /\ UNCHANGED <<config, norm, invocation>>
    /\ UNCHANGED <<middleware_state, settings>>

\* ApplicationEvent.fire, for the next handler of after_start; after the
\* last one start returns
FireAfterStart ==
    /\ app_pc = "after_start"
    /\ ev_k <= Len(after_start)
    /\ steps' = Append(steps, Step("after_start", HandlerAt(after_start, ev_k)))
    /\ IF ev_k < Len(after_start)
       THEN /\ ev_k' = ev_k + 1
            /\ UNCHANGED <<app_pc, in_start, result, lifespan_pc, sent>>
       ELSE EndCall("", "") /\ UNCHANGED ev_k
    /\ UNCHANGED <<started, calls, fns, routes, entries, cursor,
                   configured_handlers, _middlewares_configured, on_start,
                   after_start>>
    /\ UNCHANGED <<config, norm, invocation>>
    /\ UNCHANGED <<middleware_state, settings>>

\* the handler being awaited raises: the exception leaves fire and start
EventHandlerRaises ==
    /\ app_pc \in {"on_start", "after_start"}
    /\ steps' = Append(steps, Step(app_pc, IF app_pc = "on_start"
                                            THEN HandlerAt(on_start, ev_k)
                                            ELSE HandlerAt(after_start, ev_k)))
    /\ EndCall("Exception", app_pc)
    /\ UNCHANGED <<started, calls, fns, routes, entries, cursor,
                   configured_handlers, _middlewares_configured, on_start,
                   after_start, ev_k>>
    /\ UNCHANGED <<config, norm, invocation>>
    /\ UNCHANGED <<middleware_state, settings>>

\* _handle_lifespan receives lifespan.startup and awaits self.start()
LifespanStartup ==
    /\ lifespan_pc \in {"idle", "done"}
    /\ StartCalled("lifespan")
    /\ IF started
       THEN /\ sent' = <<LifespanReply("")>>
            /\ lifespan_pc' = "running"
       ELSE /\ sent' = <<>>
            /\ lifespan_pc' = "startup"

\* _handle_lifespan receives lifespan.shutdown: stop(), then the reply
LifespanShutdown ==
    /\ lifespan_pc = "running"
    /\ app_pc = "idle"
    /\ started' = FALSE
    /\ result' = [NoResult EXCEPT !.call = "stop", !.caller = "lifespan"]
    /\ sent' = Append(sent, "lifespan.shutdown.complete")
    /\ lifespan_pc' = "done"
    /\ UNCHANGED <<app_pc, in_start, calls, fns, routes, entries, cursor,
                   configured_handlers, _middlewares_configured, on_start,
                   after_start, ev_k, steps>>
    /\ UNCHANGED <<config, norm, invocation>>
    /\ UNCHANGED <<middleware_state, settings>>

Middleware(kind, fn) == [kind |-> kind, fn |-> fn]

\* a middleware with the signature of default_headers_middleware
BuiltInMiddleware ==
    [params |-> <<Positional("request", <<Plain("Request")>>),
                  Positional("handler", Empty)>>,
     coroutine |-> TRUE, call_coroutine |-> FALSE]

\* the function a middleware of the list is
MiddlewareMethod(middleware) ==
    IF middleware.fn = 0 THEN BuiltInMiddleware ELSE fns[middleware.fn].method

\* the middleware is put at the front when it is configured
Inserted(configured, kind, list) ==
    IF configured THEN <<Middleware(kind, 0)>> \o list ELSE list

\* configure_middlewares, lines 511-532: five `self.middlewares.insert(0, ...)`
WithBuiltIns(list) ==
    Inserted(_default_headers, "default_headers",
    Inserted(_cors_strategy # 0, "cors",
    Inserted(_session_middleware, "session",
    Inserted(_authentication_strategy # 0, "authentication",
    Inserted(_authorization_strategy # 0, "authorization", list)))))

\* configure_middlewares goes through its body at every call
AlreadyConfigured_Never == FALSE

\* `if self._middlewares_configured: return`
AlreadyConfigured == _middlewares_configured

\* configure_middlewares returns: to start, or to the caller
ReturnFromConfigure ==
    IF in_start THEN EnterAfterStart ELSE EndCall("", "") /\ UNCHANGED ev_k

\* configure_middlewares up to the call of _normalize_middlewares; with an
\* empty list the rest of it does nothing
ConfigureMiddlewares ==
    /\ app_pc = "configure_middlewares"
    /\ steps' = IF in_start
                THEN Append(steps, Step("configure_middlewares", 0))
                ELSE steps
    /\ IF AlreadyConfigured
       THEN /\ ReturnFromConfigure
            /\ UNCHANGED <<_middlewares_configured, middlewares, cursor,
                           normalized_list>>
       ELSE /\ _middlewares_configured' = TRUE
            /\ IF _authorization_strategy # 0 /\ _authentication_strategy = 0
               THEN /\ EndCall("AuthorizationWithoutAuthenticationError",
                               "configure_middlewares")
                    /\ UNCHANGED <<ev_k, middlewares, cursor, normalized_list>>
               ELSE /\ middlewares' = WithBuiltIns(middlewares)
                    /\ IF WithBuiltIns(middlewares) = <<>>
                       THEN ReturnFromConfigure /\ UNCHANGED <<cursor, normalized_list>>
                       ELSE /\ app_pc' = "normalize_middlewares"
                            /\ cursor' = 1
                            /\ normalized_list' = <<>>
                            /\ UNCHANGED <<ev_k, in_start, result, lifespan_pc, sent>>
    /\ UNCHANGED <<started, calls, fns, routes, entries, configured_handlers,
                   on_start, after_start, chains, settings>>
    /\ UNCHANGED <<config, norm, invocation>>

\* configure_middlewares called on its own
CallConfigureMiddlewares ==
    /\ app_pc = "idle"
    /\ lifespan_pc # "startup"
    /\ calls < MaxCalls
    /\ calls' = calls + 1
    /\ app_pc' = "configure_middlewares"
    /\ in_start' = FALSE
    /\ result' = [NoResult EXCEPT !.call = "configure_middlewares", !.caller = "user"]
    /\ UNCHANGED <<started, fns, routes, entries, cursor, configured_handlers,
                   _middlewares_configured>>
    /\ UNCHANGED <<on_start, after_start, ev_k, steps, lifespan_pc, sent>>
    /\ UNCHANGED <<middleware_state, settings>>
    /\ UNCHANGED <<config, norm, invocation>>

\* _normalize_middlewares: normalize_middleware(middleware, self.services) is
\* entered for the next middleware
EnterNormalizeMiddleware ==
    /\ app_pc = "normalize_middlewares"
    /\ pc = "idle"
    /\ cursor <= Len(middlewares)
    /\ method' = MiddlewareMethod(middlewares[cursor])
    /\ route' = NoRoute
    /\ pc' = "start"
    /\ i' = 1
    /\ binders' = <<>>
    /\ body_binder' = 0
    /\ error' = NoError
    /\ normalized' = "none"
    /\ UNCHANGED <<services, heap, singletons>>
    /\ UNCHANGED <<invocation, application>>

\* normalize_middleware returned: the list comprehension takes its result
InstallMiddleware ==
    /\ app_pc = "normalize_middlewares"
    /\ pc = "done"
    /\ LET fn == middlewares[cursor].fn
           new == Installed(fn, Len(fns) + 1)
       IN  /\ fns' = IF new = Len(fns) + 1
                     THEN Append(fns, [method |-> method, wrapped |-> fn,
                                       binders |-> binders])
                     ELSE fns
           /\ normalized_list' =
                  Append(normalized_list, Middleware(middlewares[cursor].kind, new))
    /\ cursor' = cursor + 1
    /\ pc' = "idle"
    /\ UNCHANGED <<started, app_pc, in_start, calls, routes, entries,
                   configured_handlers, _middlewares_configured, lifecycle>>
    /\ UNCHANGED <<middlewares, chains, settings>>
    /\ UNCHANGED <<i, binders, body_binder, heap, singletons, error, normalized>>
    /\ UNCHANGED <<config, invocation>>

\* normalize_middleware raises: the exception leaves configure_middlewares,
\* and start when it is the caller; self.middlewares is not assigned
MiddlewareNormalizationRaises ==
    /\ app_pc = "normalize_middlewares"
    /\ pc = "failed"
    /\ pc' = "idle"
    /\ EndCall(error.type, "normalize_middlewares")
    /\ normalized_list' = <<>>
    /\ UNCHANGED <<started, calls, fns, routes, entries, cursor,
                   configured_handlers, _middlewares_configured>>
    /\ UNCHANGED <<on_start, after_start, ev_k, steps>>
    /\ UNCHANGED <<middlewares, chains, settings>>
    /\ UNCHANGED <<i, binders, body_binder, heap, singletons, error, normalized>>
    /\ UNCHANGED <<config, invocation>>

\* self.middlewares is assigned the normalized list, and
\* `if self.middlewares: self._apply_middlewares_in_routes()`: every route
\* gets the chain of the whole list around its handler
_apply_middlewares_in_routes ==
    /\ app_pc = "normalize_middlewares"
    /\ pc = "idle"
    /\ cursor > Len(middlewares)
    /\ middlewares' = normalized_list
    /\ normalized_list' = <<>>
    /\ chains' = [r \in DOMAIN chains |-> Append(chains[r], normalized_list)]
    /\ ReturnFromConfigure
    /\ UNCHANGED <<started, calls, fns, routes, entries, cursor,
                   configured_handlers, _middlewares_configured, on_start,
                   after_start, steps, settings>>
    /\ UNCHANGED <<config, norm, invocation>>

\* the configuration methods check nothing
RaisesWhenStarted_Never(running) == FALSE

\* `if self.started: raise ...`, first statement of use_cors, add_cors_policy,
\* use_authentication and use_authorization
RaisesWhenStarted(running) == running

\* a configuration method is called; it raises when the application is started
Configure(call, raised) ==
    /\ app_pc = "idle"
    /\ lifespan_pc # "startup"
    /\ calls < MaxCalls
    /\ calls' = calls + 1
    /\ UNCHANGED <<started, app_pc, in_start, cursor, configured_handlers,
                   _middlewares_configured>>
    /\ UNCHANGED <<on_start, after_start, ev_k, steps, lifespan_pc, sent>>
    /\ UNCHANGED <<middlewares, normalized_list>>
    /\ UNCHANGED <<_default_headers, _session_middleware>>
    /\ UNCHANGED <<config, norm, invocation>>
    /\ IF RaisesWhenStarted(started)
       THEN /\ result' = [NoResult EXCEPT !.call = call, !.caller = "user",
                                          !.raised = raised, !.stage = call]
            /\ UNCHANGED <<fns, routes, entries, chains, _cors_strategy,
                           _authentication_strategy, _authorization_strategy,
                           exceptions_handlers, policies>>
       ELSE TRUE

Returned(call, given, value) ==
    [NoResult EXCEPT !.call = call, !.caller = "user", !.given = given,
                     !.value = value]

\* async def options_handler(request: Request), lines 275-277
options_handler ==
    [params |-> <<Positional("request", <<Plain("Request")>>)>>,
     coroutine |-> TRUE, call_coroutine |-> FALSE]

CORSStrategy == 1

\* use_cors, lines 259-282, once started is seen false: the strategy is set
\* and an OPTIONS route for "*" is added to the router
EnableCors ==
    /\ _cors_strategy' = CORSStrategy
    /\ fns' = Append(fns, Function(options_handler))
    /\ routes' = Append(routes, RouteOf({}, Len(fns) + 1))
    /\ entries' = Append(entries, Len(routes) + 1)
    /\ chains' = Append(chains, <<>>)

\* def use_cors(self, ...), for an application without CORS strategy
UseCors ==
    /\ Configure("use_cors", "ApplicationAlreadyStartedCORSError")
    /\ RaisesWhenStarted(started) \/ _cors_strategy = 0
    /\ IF RaisesWhenStarted(started)
       THEN TRUE
       ELSE /\ EnableCors
            /\ result' = Returned("use_cors", 0, CORSStrategy)
            /\ UNCHANGED <<_authentication_strategy, _authorization_strategy,
                           exceptions_handlers, policies>>

PolicyNames == {"a", "b"}

\* def add_cors_policy(self, policy_name, ...)
AddCorsPolicy ==
    /\ Configure("add_cors_policy", "ApplicationAlreadyStartedCORSError")
    /\ \E policy_name \in PolicyNames :
          IF RaisesWhenStarted(started)
          THEN TRUE
          ELSE /\ IF _cors_strategy = 0
                  THEN EnableCors
                  ELSE UNCHANGED <<_cors_strategy, fns, routes, entries, chains>>
               /\ policies' = policies \cup {policy_name}
               /\ result' = Returned("add_cors_policy", 0, 0)
               /\ UNCHANGED <<_authentication_strategy, _authorization_strategy,
                              exceptions_handlers>>

\* the strategies a caller passes: none (0) or one of its own
GivenStrategies == {0, 2}

\* AuthenticationStrategy(container=self.services), AuthorizationStrategy(...)
NewStrategy == 3

\* `if not strategy: strategy = ...Strategy(container=self.services)`
StrategyUsed(strategy) == IF strategy = 0 THEN NewStrategy ELSE strategy

\* `if self._authentication_strategy: return self._authentication_strategy`,
\* and the same for authorization: the strategy already configured, or 0
Existing(configured, strategy) == configured

\* def use_authentication(self, strategy=None)
UseAuthentication ==
    /\ Configure("use_authentication", "RuntimeError")
    /\ \E strategy \in GivenStrategies :
          IF RaisesWhenStarted(started)
          THEN TRUE
          ELSE /\ IF Existing(_authentication_strategy, strategy) # 0
                  THEN /\ result' = Returned("use_authentication", strategy,
                                             Existing(_authentication_strategy, strategy))
                       /\ UNCHANGED _authentication_strategy
                  ELSE /\ _authentication_strategy' = StrategyUsed(strategy)
                       /\ result' = Returned("use_authentication", strategy,
                                             StrategyUsed(strategy))
               /\ UNCHANGED <<fns, routes, entries, chains, _cors_strategy,
                              _authorization_strategy, exceptions_handlers, policies>>

AuthorizationErrors == {"AuthenticateChallenge", "UnauthorizedError", "ForbiddenError"}

\* def use_authorization(self, strategy=None)
UseAuthorization ==
    /\ Configure("use_authorization", "RuntimeError")
    /\ \E strategy \in GivenStrategies :
          IF RaisesWhenStarted(started)
          THEN TRUE
          ELSE /\ IF Existing(_authorization_strategy, strategy) # 0
                  THEN /\ result' = Returned("use_authorization", strategy,
                                             Existing(_authorization_strategy, strategy))
                       /\ UNCHANGED <<_authorization_strategy, exceptions_handlers>>
                  ELSE /\ _authorization_strategy' = StrategyUsed(strategy)
                       /\ exceptions_handlers' =
                              exceptions_handlers \cup AuthorizationErrors
                       /\ result' = Returned("use_authorization", strategy,
                                             StrategyUsed(strategy))
               /\ UNCHANGED <<fns, routes, entries, chains, _cors_strategy,
                              _authentication_strategy, policies>>

\* the applications of the lifecycle: one route; event handlers or none;
\* user middlewares; built-in middlewares configured or not
Setups ==
    [handler : {<<>>, <<Positional("a", <<Plain("Foo")>>)>>,
                <<Positional("id", Plains(<<"int", "str">>))>>},
     events : {<<>>, <<2, 1>>},
     user : {<<>>,
             <<BuiltInMiddleware.params>>,
             <<BuiltInMiddleware.params,
               <<Positional("a", <<Plain("Foo")>>), Positional("handler", Empty)>> >>},
     builtins : {"none", "all", "authorization"}]

AsyncFunction(parameters) ==
    Function([params |-> parameters, coroutine |-> TRUE, call_coroutine |-> FALSE])

InitLifecycle ==
    /\ \E setup \in Setups :
          /\ fns = <<AsyncFunction(setup.handler)>>
                     \o [k \in 1..Len(setup.user) |-> AsyncFunction(setup.user[k])]
                     \o (IF setup.builtins = "all"
                         THEN <<Function(options_handler)>> ELSE <<>>)
          /\ routes = <<RouteOf({}, 1)>>
                        \o (IF setup.builtins = "all"
                            THEN <<RouteOf({}, Len(setup.user) + 2)>> ELSE <<>>)
          /\ entries = [r \in 1..(IF setup.builtins = "all" THEN 2 ELSE 1) |-> r]
          /\ chains = [r \in 1..(IF setup.builtins = "all" THEN 2 ELSE 1) |-> <<>>]
          /\ on_start = setup.events
          /\ after_start = setup.events
          /\ middlewares = [k \in 1..Len(setup.user) |-> Middleware("user", k + 1)]
          /\ _default_headers = (setup.builtins = "all")
          /\ _session_middleware = (setup.builtins = "all")
          /\ _cors_strategy = IF setup.builtins = "all" THEN CORSStrategy ELSE 0
          /\ _authentication_strategy = IF setup.builtins = "all" THEN NewStrategy ELSE 0
          /\ _authorization_strategy = IF setup.builtins = "none" THEN 0 ELSE NewStrategy
          /\ exceptions_handlers = IF setup.builtins = "none" THEN {}
                                   ELSE AuthorizationErrors
    /\ services \in AppServiceSets
    /\ method = [params |-> <<>>, coroutine |-> TRUE, call_coroutine |-> FALSE]
    /\ route = NoRoute
    /\ pc = "idle"
    /\ Fresh
    /\ started = FALSE
    /\ app_pc = "idle"
    /\ in_start = FALSE
    /\ calls = 0
    /\ cursor = 1
    /\ configured_handlers = {}
    /\ _middlewares_configured = FALSE
    /\ ev_k = 1
    /\ steps = <<>>
    /\ result = NoResult
    /\ lifespan_pc = "idle"
    /\ sent = <<>>
    /\ normalized_list = <<>>
    /\ policies = {}

NextLifecycle ==
    \/ Start
    \/ Stop
    \/ FireOnStart
    \/ EnterNormalizeHandler
    \/ NormalizeHandler
    \/ NormalizeMiddleware
    \/ NextHandlerPlaceholder
    \/ ResolveParameter
    \/ BuildWrapper
    \/ InstallHandler
    \/ NormalizationRaises
    \/ HandlersNormalized
    \/ ConfigureMiddlewares
    \/ CallConfigureMiddlewares
    \/ EnterNormalizeMiddleware
    \/ InstallMiddleware
    \/ MiddlewareNormalizationRaises
    \/ _apply_middlewares_in_routes
    \/ FireAfterStart
    \/ EventHandlerRaises
    \/ LifespanStartup
    \/ LifespanShutdown
    \/ UseCors
    \/ AddCorsPolicy
    \/ UseAuthentication
    \/ UseAuthorization

SpecLifecycle == InitLifecycle /\ [][NextLifecycle]_vars

NextApp ==
    \/ Start
    \/ Stop
    \/ CallNormalizeHandlers
    \/ SkipConfigured
    \/ EnterNormalizeHandler
    \/ NormalizeHandler
    \/ ResolveParameter
    \/ BuildWrapper
    \/ InstallHandler
    \/ NormalizationRaises
    \/ HandlersNormalized
    \/ ConfigureMiddlewares

SpecApp == InitApp /\ [][NextApp]_vars

(***************************************************************************)
(* Properties.                                                             *)
(*                                                                         *)
(* Vocabulary shared by the properties, stated on the signature and the    *)
(* configuration rather than through the resolution operators.             *)
(***************************************************************************)
\* the annotation is exactly Optional[T]: two members, one of them None
IsOptionalOf(args) ==
    Len(args) = 2 /\ \E k \in 1..2 : args[k].t = NoneType

\* a union that is not exactly {T, None}
IsUnsupportedUnion(args) == Len(args) >= 2 /\ ~IsOptionalOf(args)

\* T of a plain annotation T or of Optional[T]
TypeOf(args) ==
    IF Len(args) = 1 THEN args[1]
    ELSE CHOOSE m \in {args[k] : k \in 1..Len(args)} : m.t # NoneType

\* parameter k is resolved through its annotation: its name is no reserved
\* alias, it is not a middleware's next-handler parameter, it is annotated
Annotated(k) ==
    /\ params[k].name \notin Aliases
    /\ ~(~route.present /\ params[k].name \in {"handler", "next_handler"})
    /\ params[k].annotation # Empty

\* ... and the annotation is T or Optional[T]
Typed(k) == Annotated(k) /\ ~IsUnsupportedUnion(params[k].annotation)

\* ... and T is a bound-value wrapper
Wrapped(k) == Typed(k) /\ TypeOf(params[k].annotation).t \in BoundValueTypes

InnerOf(k) ==
    LET m == TypeOf(params[k].annotation)
    IN  IF m.inner = <<>> THEN <<Plain("str")>> ELSE m.inner

\* ... whose inner type is U or Optional[U]
WrappedTyped(k) == Wrapped(k) /\ ~IsUnsupportedUnion(InnerOf(k))

\* the source name of the wrapper of parameter k
SourceName(k) ==
    LET m == TypeOf(params[k].annotation)
    IN  IF m.name # "" THEN m.name ELSE params[k].name

\* parameter k has a binder in the list built so far
HasBinder(k) == k \in 1..Len(binders) /\ binders[k] # _next_handler_binder

BinderOf(k) == heap[binders[k]]

\* normalization raised before the binder loop was entered
FailedAtStart ==
    \/ route.present /\ \E k \in 1..params_len : params[k].kind # "POSITIONAL_OR_KEYWORD"
    \/ route.present /\ ~method.coroutine
    \/ ~route.present /\ ~method.coroutine /\ ~method.call_coroutine

\* normalization raised while parameter k was being resolved
FailedAt(k) == pc = "failed" /\ ~FailedAtStart /\ i = k

IsWrapper == pc = "done" /\ normalized \in {"wrapper", "middleware_wrapper"}

(***************************************************************************)
(* C1.  A coroutine route handler with exactly one parameter annotated     *)
(* exactly Request or WebSocket is returned as the very same function, and *)
(* no binder is synthesized for it.                                        *)
(***************************************************************************)
C1_Case ==
    /\ route.present
    /\ method.coroutine
    /\ params_len = 1
    /\ params[1].annotation \in {<<Plain("Request")>>, <<Plain("WebSocket")>>}

C1_Returned ==
    /\ pc = "done"
    /\ normalized = "method"
    /\ binders = <<>>
    /\ heap = <<>>

\* C1 as claimed: every such handler, whatever the kind of its parameter
C1_Original == (C1_Case /\ pc # "start") => C1_Returned

\* C1 as amended: the parameter is an ordinary (positional-or-keyword)
\* parameter; a *args, **kwargs or keyword-only one is rejected first, with
\* UnsupportedSignatureError
C1_FastPath ==
    (C1_Case /\ pc # "start") =>
        IF params[1].kind = "POSITIONAL_OR_KEYWORD"
        THEN C1_Returned
        ELSE pc = "failed" /\ error.type = "UnsupportedSignatureError"

C1_Witness ==
    /\ C1_Case
    /\ params[1].annotation = <<Plain("WebSocket")>>
    /\ C1_Returned

(***************************************************************************)
(* C2.  The wrapper of a route handler with no parameter calls the handler *)
(* with no arguments and never reads the request, on every invocation.     *)
(***************************************************************************)
C2_NoInput ==
    (route.present /\ method.coroutine /\ params_len = 0 /\ pc # "start") =>
        /\ pc = "done"
        /\ normalized = "no_input_wrapper"
        /\ request_reads = 0
        /\ Len(method_calls) = served
        /\ \A c \in 1..Len(method_calls) : method_calls[c] = <<>>

C2_Witness ==
    /\ route.present
    /\ params_len = 0
    /\ normalized = "no_input_wrapper"
    /\ served = MaxInvocations
    /\ Len(method_calls) = MaxInvocations

(***************************************************************************)
(* C3.  The reserved-alias tier comes first: a parameter whose name is a   *)
(* reserved alias gets the binder of that alias's factory, whatever its    *)
(* annotation, the route's segments and the registered services; its       *)
(* resolution never raises.                                                *)
(***************************************************************************)
C3_AliasFirst ==
    \A k \in 1..params_len : params[k].name \in Aliases =>
        /\ ~FailedAt(k)
        /\ k <= Len(binders) =>
              /\ HasBinder(k)
              /\ BinderOf(k).cls = AliasClass(params[k].name)
              /\ BinderOf(k).parameter_name = params[k].name
              /\ BinderOf(k).implicit

C3_Witness ==
    \E k \in 1..params_len :
        /\ params[k].name \in Aliases
        /\ IsUnsupportedUnion(params[k].annotation)
        /\ HasBinder(k)
        /\ IsWrapper

(***************************************************************************)
(* C4.  A parameter without annotation (and not named by an alias) is      *)
(* bound from the route as str when a route exists and the name is one of  *)
(* its segments, else from the services when the name is a registered      *)
(* service, else from the query string as a list of strings.               *)
(***************************************************************************)
C4_Untyped ==
    \A k \in 1..params_len :
        (params[k].name \notin Aliases /\ params[k].annotation = Empty) =>
            /\ ~FailedAt(k)
            /\ HasBinder(k) =>
                  LET b == BinderOf(k)
                      name == params[k].name
                  IN  /\ b.parameter_name = name
                      /\ IF route.present /\ name \in route.param_names
                         THEN b.cls = "RouteBinder" /\ b.expected_type = "str"
                         ELSE IF name \in services
                         THEN b.cls = "ServiceBinder" /\ b.expected_type = name
                         ELSE b.cls = "QueryBinder" /\ b.expected_type = "List[str]"

\* the name is a route segment and a registered service: the route wins
C4_Witness ==
    \E k \in 1..params_len :
        /\ params[k].annotation = Empty
        /\ params[k].name \in route.param_names
        /\ params[k].name \in services
        /\ HasBinder(k)
        /\ BinderOf(k).cls = "RouteBinder"

(***************************************************************************)
(* C5.  A union that is not exactly {T, None} is refused with              *)
(* NormalizationError; Optional[T] is unwrapped and resolved as T; the     *)
(* same holds of the inner type of a bound-value wrapper.                  *)
(***************************************************************************)
\* parameter k is annotated with an unsupported union, at the root or
\* inside a bound-value wrapper
HasUnsupportedUnion(k) ==
    \/ IsUnsupportedUnion(params[k].annotation)
    \/ /\ params[k].annotation # Empty
       /\ ~IsUnsupportedUnion(params[k].annotation)
       /\ TypeOf(params[k].annotation).t \in BoundValueTypes
       /\ IsUnsupportedUnion(InnerOf(k))

\* C5 as claimed: every route handler that has such a parameter fails to
\* normalize (here with any error at all)
C5_Original ==
    (/\ route.present
     /\ method.coroutine
     /\ \A k \in 1..params_len : params[k].kind = "POSITIONAL_OR_KEYWORD"
     /\ \E k \in 1..params_len : HasUnsupportedUnion(k)
     /\ pc \notin {"start", "binders"}) => pc = "failed"

\* C5 as amended: the rule applies to the parameters resolved through their
\* annotation (not named by an alias, not a middleware's next handler); no
\* binder is ever produced for such a parameter with an unsupported union,
\* its resolution raises NormalizationError naming it, and the binder
\* returned for Optional[T] is typed T (stated of the binder as resolution
\* returns it: the last of the list, before anything else is resolved); a
\* parameter named by an alias never fails on its union
C5_UnionRule ==
    /\ \A k \in 1..params_len :
          (params[k].name \in Aliases /\ HasUnsupportedUnion(k)) => ~FailedAt(k)
    /\ \A k \in 1..params_len : Annotated(k) =>
        /\ HasUnsupportedUnion(k) =>
              /\ k > Len(binders)
              /\ FailedAt(k) => error = Error("NormalizationError", params[k].name)
        /\ (k = Len(binders) /\ HasBinder(k) /\ pc # "failed") =>
              BinderOf(k).expected_type =
                  IF Wrapped(k) THEN TypeOf(InnerOf(k)).t
                  ELSE TypeOf(params[k].annotation).t

C5_Witness ==
    /\ FailedAt(i)
    /\ Annotated(i)
    /\ Wrapped(i)
    /\ IsUnsupportedUnion(InnerOf(i))
    /\ error.type = "NormalizationError"

(***************************************************************************)
(* C6.  An annotated parameter gets the binder of the first tier that      *)
(* matches, in the order: global type handler (the type being neither a    *)
(* registered service nor a bound-value wrapper), bound-value wrapper,     *)
(* route segment, registered service type, simple type, identity.          *)
(***************************************************************************)
C6_Tiers ==
    \A k \in 1..params_len : (Typed(k) /\ HasBinder(k)) =>
        LET T == TypeOf(params[k].annotation)
            name == params[k].name
            b == BinderOf(k)
            t4 == /\ T.t \in HandlerTypes
                  /\ T.t \notin services
                  /\ T.t \notin BoundValueTypes
            t5 == T.t \in BoundValueTypes
            t6 == route.present /\ name \in route.param_names
            t7 == T.t \in services
            t8 == T.t \in _types_handled_with_query
            t9 == T.t \in {"User", "Identity"}
        IN  IF t4 THEN b.cls = HandlerClass(T.t) /\ b.expected_type = T.t /\ ~b.implicit
            ELSE IF t5 THEN b.cls = get_binder_by_type(T.t) /\ ~b.implicit
            ELSE IF t6 THEN b.cls = "RouteBinder" /\ b.expected_type = T.t /\ b.implicit
            ELSE IF t7 THEN b.cls = "ServiceBinder" /\ b.expected_type = T.t
            ELSE IF t8 THEN b.cls = "QueryBinder" /\ b.expected_type = T.t
            ELSE t9 /\ b.cls = "IdentityBinder"

\* the name is a route segment and the type a registered service
C6_Witness ==
    \E k \in 1..params_len :
        /\ Typed(k)
        /\ HasBinder(k)
        /\ params[k].name \in route.param_names
        /\ TypeOf(params[k].annotation).t \in services
        /\ BinderOf(k).cls = "RouteBinder"
        /\ BinderOf(k).implicit

(***************************************************************************)
(* C7.  The binder returned for a bound-value wrapper has required = TRUE  *)
(* exactly when the inner type is not Optional, root_required = FALSE      *)
(* whenever the wrapper itself is Optional, and as source name the         *)
(* wrapper's name override when it has one, else the parameter name.       *)
(* (Stated of the binder as resolution returns it: the last of the list,   *)
(* before anything else is resolved.)                                      *)
(***************************************************************************)
C7_BoundValue ==
    LET k == Len(binders)
    IN  (k >= 1 /\ HasBinder(k) /\ Wrapped(k) /\ pc # "failed") =>
            LET b == BinderOf(k)
                wrapper == TypeOf(params[k].annotation)
            IN  /\ b.required = ~IsOptionalOf(InnerOf(k))
                /\ IsOptionalOf(params[k].annotation) => ~b.root_required
                /\ b.parameter_name =
                      IF wrapper.name # "" THEN wrapper.name ELSE params[k].name

\* Optional[FromHeader[int]]: mandatory inner type, optional wrapper
C7_Witness ==
    LET k == Len(binders)
    IN  /\ k >= 1
        /\ pc # "failed"
        /\ HasBinder(k)
        /\ Wrapped(k)
        /\ IsOptionalOf(params[k].annotation)
        /\ BinderOf(k).required
        /\ ~BinderOf(k).root_required

(***************************************************************************)
(* C8.  A bound-value wrapper that resolves to a route binder whose source *)
(* name is no path segment of the route makes normalization fail with      *)
(* RouteBinderMismatch.                                                    *)
(***************************************************************************)
RouteWrapped(k) ==
    WrappedTyped(k) /\ get_binder_by_type(TypeOf(params[k].annotation).t) = "RouteBinder"

\* C8 as claimed: for every callable, a middleware (no route, hence no
\* segment) included, no such binder is ever returned
C8_Original ==
    \A k \in 1..params_len :
        (RouteWrapped(k) /\ HasBinder(k)) => SourceName(k) \in route.param_names

\* C8 as amended: the check is made when a route is being normalized; for a
\* middleware (no route) the binder is returned unchecked and
\* RouteBinderMismatch is never raised
C8_RouteBinderMismatch ==
    /\ route.present => C8_Original
    /\ \A k \in 1..params_len :
          (/\ route.present
           /\ RouteWrapped(k)
           /\ SourceName(k) \notin route.param_names
           /\ FailedAt(k)) => error = Error("RouteBinderMismatch", SourceName(k))
    /\ ~route.present =>
          /\ error.type # "RouteBinderMismatch"
          /\ \A k \in 1..params_len : RouteWrapped(k) => ~FailedAt(k)

C8_Witness ==
    /\ FailedAt(i)
    /\ RouteWrapped(i)
    /\ SourceName(i) \notin route.param_names
    /\ error.type = "RouteBinderMismatch"

(***************************************************************************)
(* C9.  A parameter that matches no tier makes normalization fail with an  *)
(* error of the NormalizationError family that names the parameter.        *)
(***************************************************************************)
MatchesNoTier(k) ==
    /\ Typed(k)
    /\ LET T == TypeOf(params[k].annotation)
       IN  /\ T.t \notin HandlerTypes
           /\ T.t \notin BoundValueTypes
           /\ ~(route.present /\ params[k].name \in route.param_names)
           /\ T.t \notin services
           /\ T.t \notin _types_handled_with_query
           /\ T.t \notin {"User", "Identity"}

\* C9 as claimed: the error is of the NormalizationError family and names
\* the parameter that matched no tier
C9_Claim ==
    \A k \in 1..params_len : (MatchesNoTier(k) /\ FailedAt(k)) =>
        /\ error.type \in NormalizationErrors
        /\ error.names = params[k].name

\* what the code does there: a bare ValueError that names no parameter
C9_Observed ==
    \A k \in 1..params_len : MatchesNoTier(k) =>
        /\ ~HasBinder(k)
        /\ FailedAt(k) => error = Error("ValueError", "")

(***************************************************************************)
(* C10.  A binder list holds at most one body binder: the second parameter *)
(* that resolves to a body binder makes normalization fail with            *)
(* AmbiguousMethodSignatureError, wherever the two stand and whether or    *)
(* not they resolve to the same container instance.                        *)
(***************************************************************************)
BodyWrapped(k) ==
    WrappedTyped(k)
    /\ get_binder_by_type(TypeOf(params[k].annotation).t) \in BodyBinderClasses

\* C10: at most one body binder in the list built, no wrapper for a
\* signature with two body parameters, AmbiguousMethodSignatureError at the
\* second one
C10_OneBodyBinder ==
    /\ Cardinality({k \in 1..Len(binders) :
                      HasBinder(k) /\ BinderOf(k).cls \in BodyBinderClasses}) <= 1
    /\ IsWrapper => Cardinality({k \in 1..params_len : BodyWrapped(k)}) <= 1
    /\ \A k \in 1..params_len :
          (/\ FailedAt(k)
           /\ BodyWrapped(k)
           /\ \E l \in 1..(k - 1) : BodyWrapped(l))
              => error.type = "AmbiguousMethodSignatureError"

\* the two body parameters resolve to the one instance of the container
C10_Witness ==
    /\ FailedAt(i)
    /\ BodyWrapped(i)
    /\ \E l \in 1..(i - 1) : BodyWrapped(l) /\ binders[l] = singletons["JSONBinder"]
    /\ error.type = "AmbiguousMethodSignatureError"


(***************************************************************************)
(* C11.  A parameter annotated Optional[T], T a simple type, that matches  *)
(* no route segment and no service gets a query binder with required =     *)
(* FALSE carrying the parameter's default, or the no-default sentinel; on  *)
(* a request that lacks the value the wrapper does not raise and passes    *)
(* the explicit default when there is one, None otherwise.                 *)
(***************************************************************************)
C11_Case(k) ==
    /\ Annotated(k)
    /\ IsOptionalOf(params[k].annotation)
    /\ TypeOf(params[k].annotation).t \in _types_handled_with_query
    /\ ~(route.present /\ params[k].name \in route.param_names)
    /\ TypeOf(params[k].annotation).t \notin services

\* what the wrapper passes for parameter k when the request lacks its value
C11_Passed(k) == IF params[k].default # _empty THEN StoredDefault ELSE None

\* the last invocation ended on the missing value of parameter k
MissingRaisedAt(k) ==
    /\ inv_pc = "idle"
    /\ responses # <<>>
    /\ responses[Len(responses)] = "missing"
    /\ inv_j = k

C11_OptionalQuery ==
    \A k \in 1..params_len : C11_Case(k) =>
        /\ HasBinder(k) =>
              /\ BinderOf(k).cls = "QueryBinder"
              /\ BinderOf(k).expected_type = TypeOf(params[k].annotation).t
              /\ ~BinderOf(k).required
              /\ BinderOf(k).default =
                    IF params[k].default = _empty THEN empty ELSE params[k].default
        /\ (pc = "done" /\ k <= Len(inv_values)) =>
              inv_values[k] \in {binders[k], C11_Passed(k)}
        /\ \A c \in 1..Len(method_calls) :
              method_calls[c][k] \in {binders[k], C11_Passed(k)}
        /\ ~MissingRaisedAt(k)

\* one request without the value served with the default, one with None
C11_Witness ==
    /\ params_len = 2
    /\ C11_Case(2)
    /\ params[2].default = "d"
    /\ \E c \in 1..Len(method_calls) : method_calls[c][2] = StoredDefault
    /\ responses = <<"method", "method">>

(***************************************************************************)
(* C12.  A route handler that is not a coroutine function is rejected with *)
(* an error when it is normalized and nothing is installed for it; so is a *)
(* middleware that is neither a coroutine function nor an object whose     *)
(* __call__ is one.                                                        *)
(***************************************************************************)
C12_Rejected ==
    /\ pc = "failed"
    /\ normalized = "none"
    /\ binders = <<>>
    /\ heap = <<>>

C12_AsyncOnly ==
    /\ (route.present /\ ~method.coroutine /\ pc # "start") =>
          /\ C12_Rejected
          /\ error.type \in {"TypeError", "UnsupportedSignatureError"}
    /\ (/\ ~route.present
        /\ ~method.coroutine
        /\ ~method.call_coroutine
        /\ pc # "start") => (C12_Rejected /\ error.type = "ValueError")

\* an object with a coroutine __call__ registered as a route handler
C12_Witness ==
    /\ route.present
    /\ method.call_coroutine
    /\ params_len = 1
    /\ C12_Rejected
    /\ error.type = "TypeError"

\* the signature declares a *args, a **kwargs or a keyword-only parameter
DeclaresUnsupported ==
    \E k \in 1..params_len :
        params[k].kind \in {"VAR_POSITIONAL", "VAR_KEYWORD", "KEYWORD_ONLY"}

(***************************************************************************)
(* C13.  normalize_handler raises UnsupportedSignatureError for every      *)
(* route handler that declares a *args, **kwargs or keyword-only parameter *)
(* at any position; no binder has been resolved by then, and the error is  *)
(* the same whether or not the handler is a coroutine function.            *)
(***************************************************************************)
C13_UnsupportedFirst ==
    (route.present /\ DeclaresUnsupported /\ pc # "start") =>
        /\ pc = "failed"
        /\ error.type = "UnsupportedSignatureError"
        /\ normalized = "none"
        /\ binders = <<>>
        /\ heap = <<>>
        /\ \A cls \in BinderClasses : singletons[cls] = 0

\* a synchronous handler whose second parameter is keyword-only
C13_Witness ==
    /\ route.present
    /\ ~method.coroutine
    /\ params_len = 2
    /\ params[1].kind = "POSITIONAL_OR_KEYWORD"
    /\ params[2].kind = "KEYWORD_ONLY"
    /\ pc = "failed"
    /\ error.type = "UnsupportedSignatureError"

(***************************************************************************)
(* C14.  Normalizing an asynchronous middleware that declares a *args,     *)
(* **kwargs or keyword-only parameter fails with UnsupportedSignatureError *)
(* and produces no wrapper.                                                *)
(***************************************************************************)
C14_Claim ==
    (/\ ~route.present
     /\ IsAsyncMiddleware(method)
     /\ DeclaresUnsupported
     /\ pc \notin {"start", "binders"}) =>
        /\ pc = "failed"
        /\ error.type = "UnsupportedSignatureError"
        /\ normalized = "none"

\* what normalize_middleware does instead: UnsupportedSignatureError is
\* never raised for a middleware
C14_Observed == ~route.present => error.type # "UnsupportedSignatureError"

(***************************************************************************)
(* C15.  An asynchronous middleware with exactly two parameters, the first *)
(* named request and the second handler or next_handler, is returned       *)
(* unchanged whatever the annotations.  Any other asynchronous middleware  *)
(* is never returned unchanged: it goes to the synthesis of a wrapper,     *)
(* which replaces it when all its parameters resolve and raises otherwise. *)
(***************************************************************************)
C15_Basic ==
    /\ Len(params) = 2
    /\ params[1].name = "request"
    /\ params[2].name \in {"handler", "next_handler"}

C15_PassThrough ==
    (~route.present /\ IsAsyncMiddleware(method) /\ C15_Basic /\ pc # "start") =>
        /\ pc = "done"
        /\ normalized = "method"
        /\ binders = <<>>
        /\ heap = <<>>

\* C15 as claimed: every middleware of another shape is replaced by a wrapper
C15_Original ==
    /\ C15_PassThrough
    /\ (/\ ~route.present
        /\ IsAsyncMiddleware(method)
        /\ ~C15_Basic
        /\ pc \notin {"start", "binders"}) =>
            (pc = "done" /\ normalized = "middleware_wrapper")

C15_BasicOrWrapper ==
    /\ C15_PassThrough
    /\ (~route.present /\ IsAsyncMiddleware(method) /\ ~C15_Basic /\ pc # "start") =>
          /\ normalized # "method"
          /\ pc = "done" =>
                (normalized = "middleware_wrapper" /\ Len(binders) = params_len)
          /\ pc = "failed" =>
                (normalized = "none" /\ error.type # "" /\ i \in 1..params_len)

\* the two names in the other order: a wrapper, the next handler first
C15_Witness ==
    /\ ~route.present
    /\ params_len = 2
    /\ params[1].name = "handler"
    /\ params[2].name = "request"
    /\ pc = "done"
    /\ normalized = "middleware_wrapper"
    /\ binders[1] = _next_handler_binder

\* how many of the completed invocations ended the given way
Count(response) == Cardinality({c \in 1..Len(responses) : responses[c] = response})

\* the middleware declares a handler / next_handler parameter
DeclaresNextHandler ==
    \E k \in 1..params_len : params[k].name \in {"handler", "next_handler"}

\* the middleware function has returned and the wrapper has yet to go on
Continuing == IF inv_pc = "continue" THEN 1 ELSE 0

(***************************************************************************)
(* C16.  A synthesized middleware wrapper whose middleware declares no     *)
(* handler / next_handler parameter calls the downstream continuation      *)
(* itself, once, after the middleware function has returned, and returns   *)
(* the downstream response; one whose middleware declares such a parameter *)
(* passes the continuation at that position, never calls it itself and     *)
(* returns what the middleware returns.                                    *)
(***************************************************************************)
C16_HandsOver ==
    (pc = "done" /\ normalized = "middleware_wrapper" /\ DeclaresNextHandler) =>
        /\ next_calls = 0
        /\ inv_pc # "continue"
        /\ \A c \in 1..Len(method_calls) : \A k \in 1..Len(binders) :
              (method_calls[c][k] = NextHandler) <=> (binders[k] = _next_handler_binder)
        /\ \A c \in 1..Len(responses) : responses[c] # "next_handler"
        /\ Len(method_calls) = Count("method") + Count("method_error")

\* C16 as claimed: without such a parameter, the continuation is called
\* exactly once on each request
C16_Original ==
    /\ C16_HandsOver
    /\ (/\ pc = "done"
        /\ normalized = "middleware_wrapper"
        /\ ~DeclaresNextHandler
        /\ inv_pc = "idle") =>
            /\ next_calls = served
            /\ \A c \in 1..Len(responses) : responses[c] = "next_handler"

\* C16 as amended: exactly once on each request on which every binder
\* resolves and the middleware function returns, and not at all on a
\* request on which a binder or the middleware function raises
C16_Continuation ==
    /\ C16_HandsOver
    /\ (pc = "done" /\ normalized = "middleware_wrapper" /\ ~DeclaresNextHandler) =>
          /\ \A c \in 1..Len(responses) : responses[c] # "method"
          /\ next_calls = Count("next_handler")
          /\ Len(method_calls) =
                Count("next_handler") + Count("method_error") + Continuing
          /\ served = Count("next_handler") + Count("method_error")
                      + Count("binder_error") + Count("missing")

\* both requests went through the middleware and on to the continuation
C16_Witness ==
    /\ normalized = "middleware_wrapper"
    /\ ~DeclaresNextHandler
    /\ Len(binders) = 2
    /\ responses = <<"next_handler", "next_handler">>
    /\ next_calls = 2

(***************************************************************************)
(* C17.  One invocation of a synthesized wrapper resolves its binders one  *)
(* after another in declaration order: the get_parameter of a binder is    *)
(* called only when those of all earlier binders have completed, the       *)
(* original function is called after all of them, with the values in       *)
(* declaration order, and once a binder raises no later binder and not the *)
(* original function is called for that request.                           *)
(***************************************************************************)
\* what position k of the argument list may hold
ValuesAt(k) ==
    IF binders[k] = _next_handler_binder THEN {NextHandler}
    ELSE {binders[k], None, StoredDefault}

\* the positions whose get_parameter has been called, in order
StartedUpTo(j) ==
    {k \in 1..Len(binders) : binders[k] # _next_handler_binder /\ k <= j}

C17_Sequential ==
    (pc = "done" /\ normalized \in {"wrapper", "middleware_wrapper"}) =>
        /\ \A n \in 1..Len(inv_started) :
              /\ inv_started[n] <= Len(inv_values) + 1
              /\ n > 1 => inv_started[n - 1] < inv_started[n]
        /\ {inv_started[n] : n \in 1..Len(inv_started)} \in
              {StartedUpTo(inv_j - 1), StartedUpTo(inv_j)}
        /\ Len(inv_values) = IF inv_j > Len(binders) THEN Len(binders) ELSE inv_j - 1
        /\ \A k \in 1..Len(inv_values) : inv_values[k] \in ValuesAt(k)
        /\ \A c \in 1..Len(method_calls) :
              /\ Len(method_calls[c]) = Len(binders)
              /\ \A k \in 1..Len(binders) : method_calls[c][k] \in ValuesAt(k)
        /\ Len(method_calls) =
              Count("method") + Count("next_handler") + Count("method_error")
              + Continuing
        /\ raised_calls = Count("binder_error") + Count("missing")
        /\ (/\ inv_pc = "idle"
            /\ responses # <<>>
            /\ responses[Len(responses)] \in {"binder_error", "missing"}) =>
                /\ inv_j <= Len(binders)
                /\ inv_started[Len(inv_started)] = inv_j

\* two requests: the first binder of the second one raised
C17_Witness ==
    /\ normalized = "wrapper"
    /\ Len(binders) = 2
    /\ binders[1] # binders[2]
    /\ method_calls = <<<<binders[1], binders[2]>>>>
    /\ responses = <<"method", "binder_error">>
    /\ inv_j = 1
    /\ inv_started = <<1>>

(***************************************************************************)
(* Vocabulary of the properties of the application.                        *)
(***************************************************************************)
HandlerOf(r) == routes[r].handler

\* the function is a synthesized wrapper
IsSynthesized(h) == fns[h].wrapped # 0

\* the binder objects of the closure of a function
BinderObjects(h) ==
    {fns[h].binders[k] : k \in 1..Len(fns[h].binders)} \ {_next_handler_binder}

\* the binder get_parameter_binder returns for the parameter on its own
ResolvedFor(parameter, r) ==
    get_parameter_binder(parameter, services,
                         [present |-> TRUE, param_names |-> routes[r].param_names],
                         ResolvedInstance(WrapperBinderClass(parameter))).binder

(***************************************************************************)
(* C18.  Whatever calls of start, stop and normalize_handlers were made,   *)
(* the handler of every route is the function registered on the route or   *)
(* one synthesized wrapper around that function, never a wrapper around a  *)
(* wrapper.                                                                *)
(***************************************************************************)
C18_Claim ==
    \A r \in 1..Len(routes) :
        IsSynthesized(HandlerOf(r)) => ~IsSynthesized(fns[HandlerOf(r)].wrapped)

\* what the code keeps to: one call of normalize_handlers wraps the handler
\* of a route at most once, also when the route is listed under two HTTP
\* methods, and start is a no-op while the application is started
C18_Observed ==
    /\ \A h \in 1..Len(fns) : fns[h].wrapped < h
    /\ Cardinality({h \in 1..Len(fns) : IsSynthesized(h)}) <= calls * Len(routes)
    /\ \A h \in configured_handlers : \E r \in 1..Len(routes) : HandlerOf(r) = h

(***************************************************************************)
(* C19.  The binder lists of the handlers of two different routes have no  *)
(* binder object in common.                                                *)
(***************************************************************************)
C19_Claim ==
    \A r, q \in 1..Len(routes) :
        HandlerOf(r) # HandlerOf(q) =>
            BinderObjects(HandlerOf(r)) \cap BinderObjects(HandlerOf(q)) = {}

\* what the code keeps to: only the container's instance of a binder class
\* is ever in two lists
C19_Observed ==
    \A r, q \in 1..Len(routes) :
        HandlerOf(r) # HandlerOf(q) =>
            BinderObjects(HandlerOf(r)) \cap BinderObjects(HandlerOf(q))
                \subseteq {singletons[cls] : cls \in BinderClasses}

(***************************************************************************)
(* C20.  The binder at each position of the binder list of each route's    *)
(* handler carries the target type, source name, required flag and default *)
(* that were resolved for the parameter at that position.                  *)
(***************************************************************************)
C20_Claim ==
    \A r \in 1..Len(routes) :
        LET h == HandlerOf(r)
        IN  \A k \in 1..Len(fns[h].binders) :
                LET b == heap[fns[h].binders[k]]
                    e == ResolvedFor(fns[h].method.params[k], r)
                IN  /\ b.expected_type = e.expected_type
                    /\ b.parameter_name = e.parameter_name
                    /\ b.required = e.required
                    /\ b.default = e.default

\* what the code keeps to: a binder that is not the container's instance
\* keeps what was resolved for its parameter
C20_Observed ==
    \A r \in 1..Len(routes) :
        LET h == HandlerOf(r)
        IN  \A k \in 1..Len(fns[h].binders) :
                fns[h].binders[k] \notin {singletons[cls] : cls \in BinderClasses} =>
                    heap[fns[h].binders[k]] = ResolvedFor(fns[h].method.params[k], r)

(***************************************************************************)
(* C23.  The binder list of a synthesized wrapper has one entry per        *)
(* parameter; the entries of a middleware's handler / next_handler         *)
(* parameters are the placeholder and all others are binders, so the       *)
(* binders number the parameters less the placeholders; a route handler's  *)
(* list holds no placeholder, whatever its parameters are named.           *)
(***************************************************************************)
PlaceholderParameters ==
    {k \in 1..params_len :
        ~route.present /\ params[k].name \in {"handler", "next_handler"}}

C23_BinderCount ==
    IsWrapper =>
        /\ Len(binders) = params_len
        /\ \A k \in 1..params_len :
              IF k \in PlaceholderParameters
              THEN binders[k] = _next_handler_binder
              ELSE binders[k] \in 1..Len(heap)
        /\ Cardinality({k \in 1..Len(binders) : HasBinder(k)})
              = params_len - Cardinality(PlaceholderParameters)
        /\ route.present => \A k \in 1..params_len : HasBinder(k)

\* a route handler with a parameter named handler: a binder, no placeholder
C23_Witness ==
    /\ IsWrapper
    /\ route.present
    /\ params_len = 2
    /\ params[2].name = "handler"
    /\ HasBinder(2)
    /\ BinderOf(2).parameter_name = "handler"

(***************************************************************************)
(* The application lifecycle.                                              *)
(***************************************************************************)
\* the steps of the given event start has fired
Fired(event) == {k \in 1..Len(steps) : steps[k].step = event}

\* the last call was a start that ended with an error of normalization
NormalizationAbortedStart ==
    /\ result.call = "start"
    /\ result.stage \in {"normalize_handlers", "normalize_middlewares"}

\* C21: when the normalization of a route handler or of a middleware raises
\* during start(), start ends there with that error: the error is the result
\* of start(), no after_start handler has been fired, and when the lifespan
\* handler made the call it has sent lifespan.startup.failed and nothing
\* else: no lifespan.startup.complete for that startup.
C21_StartAborted ==
    NormalizationAbortedStart =>
        /\ app_pc = "idle"
        /\ ~in_start
        /\ result.raised # ""
        /\ result.raised = error.type
        /\ Fired("after_start") = {}
        /\ result.caller = "lifespan" =>
              /\ sent = <<"lifespan.startup.failed">>
              /\ lifespan_pc = "done"

C21_Witness ==
    /\ NormalizationAbortedStart
    /\ result.stage = "normalize_middlewares"
    /\ result.caller = "lifespan"
    /\ after_start # <<>>
    /\ sent = <<"lifespan.startup.failed">>

\* what a whole start does, in order
StartupOrder ==
    [k \in 1..Len(on_start) |-> Step("on_start", on_start[k])]
    \o <<Step("normalize_handlers", 0), Step("configure_middlewares", 0)>>
    \o [k \in 1..Len(after_start) |-> Step("after_start", after_start[k])]

IsPrefix(s, t) ==
    /\ Len(s) <= Len(t)
    /\ \A k \in 1..Len(s) : s[k] = t[k]

\* a call of start() is made in this step
StartIsCalled == calls' = calls + 1 /\ result'.call = "start"

\* C24: within one started period the startup steps happen at most once and
\* in the order on_start handlers, normalization of the route handlers,
\* configuration of the middlewares, after_start handlers, the handlers of
\* an event in their registration order; and a start() called while
\* `started` is true does none of them.
C24_StartupOrder ==
    /\ [](IsPrefix(steps, StartupOrder))
    /\ [][(started /\ StartIsCalled) =>
              /\ steps' = steps
              /\ app_pc' = "idle"
              /\ UNCHANGED <<fns, routes, middlewares, chains, heap,
                             _middlewares_configured>>]_vars

C24_Witness ==
    /\ started
    /\ app_pc = "idle"
    /\ result.call = "start"
    /\ result.raised = ""
    /\ calls = 2
    /\ on_start = <<2, 1>>
    /\ steps = StartupOrder
    /\ \E r \in DOMAIN chains : chains[r] # <<>>

\* C25: whenever `started` is true and no start() is in progress, start has
\* gone through the normalization of the routes and the configuration of
\* the middlewares: a start() that failed part-way does not leave the
\* application marked as started.
C25_Claim ==
    (started /\ app_pc = "idle") =>
        /\ Fired("normalize_handlers") # {}
        /\ Fired("configure_middlewares") # {}
        /\ _middlewares_configured

\* what the code does: a start() that raised leaves `started` true
C25_Observed ==
    /\ started
    /\ app_pc = "idle"
    /\ result.call = "start"
    /\ result.stage = "normalize_handlers"
    /\ result.raised = "NormalizationError"
    /\ ~_middlewares_configured

\* the place of a middleware in the configured list
Rank(kind) ==
    CASE kind = "default_headers" -> 1
      [] kind = "cors" -> 2
      [] kind = "session" -> 3
      [] kind = "authentication" -> 4
      [] kind = "authorization" -> 5
      [] OTHER -> 6

IsUser(middleware) == middleware.kind = "user"

\* the function the user registered, for a middleware of the list
Registered(middleware) ==
    IF fns[middleware.fn].wrapped # 0 THEN fns[middleware.fn].wrapped
    ELSE middleware.fn

\* built-in middlewares first, in their order and once each; then the
\* middlewares of the user, in the order they were registered in
Ordered(list) ==
    /\ \A j, k \in 1..Len(list) :
          j < k => /\ Rank(list[j].kind) <= Rank(list[k].kind)
                   /\ IsUser(list[j]) \/ Rank(list[j].kind) < Rank(list[k].kind)
    /\ LET user == SelectSeq(list, IsUser)
       IN  \A k \in 1..Len(user) : Registered(user[k]) = k + 1

\* the built-in middlewares that are configured
ConfiguredKinds ==
    (IF _default_headers THEN {"default_headers"} ELSE {})
    \cup (IF _cors_strategy # 0 THEN {"cors"} ELSE {})
    \cup (IF _session_middleware THEN {"session"} ELSE {})
    \cup (IF _authentication_strategy # 0 THEN {"authentication"} ELSE {})
    \cup (IF _authorization_strategy # 0 THEN {"authorization"} ELSE {})

BuiltInsOf(list) == {list[k].kind : k \in 1..Len(list)} \ {"user"}

\* configure_middlewares goes through its body in this step
ConfigurationBegins == ~_middlewares_configured /\ _middlewares_configured'

\* the configuration that began ends in this step without an error
ConfigurationEnds ==
    \/ ConfigurationBegins /\ app_pc' # "normalize_middlewares" /\ result'.raised = ""
    \/ app_pc = "normalize_middlewares" /\ app_pc' # "normalize_middlewares"
       /\ result'.raised = ""

ConfigurationMethods ==
    {"use_cors", "add_cors_policy", "use_authentication", "use_authorization"}

\* the given configuration method is called in this step
IsCalled(name) == calls' = calls + 1 /\ result'.call = name

\* C27: while the application is started, use_cors and add_cors_policy
\* raise ApplicationAlreadyStartedCORSError and use_authentication and
\* use_authorization raise RuntimeError, and the strategies, the policies,
\* the router and the table of exception handlers stay as they are; when
\* it is not started, use_authentication and use_authorization called with
\* a strategy already configured return that strategy, whatever was passed,
\* and change nothing.
C27_FrozenWhenStarted ==
    /\ [][\A name \in ConfigurationMethods :
            (started /\ IsCalled(name)) =>
                /\ result'.raised = IF name \in {"use_cors", "add_cors_policy"}
                                    THEN "ApplicationAlreadyStartedCORSError"
                                    ELSE "RuntimeError"
                /\ UNCHANGED <<_cors_strategy, _authentication_strategy,
                               _authorization_strategy, policies, routes,
                               entries, fns, exceptions_handlers>>]_vars
    /\ [][(~started /\ IsCalled("use_authentication")
                    /\ _authentication_strategy # 0) =>
                /\ result'.raised = ""
                /\ result'.value = _authentication_strategy
                /\ UNCHANGED <<_authentication_strategy, settings>>]_vars
    /\ [][(~started /\ IsCalled("use_authorization")
                    /\ _authorization_strategy # 0) =>
                /\ result'.raised = ""
                /\ result'.value = _authorization_strategy
                /\ UNCHANGED <<_authorization_strategy, settings>>]_vars

C27_Witness ==
    /\ started
    /\ result.call = "use_cors"
    /\ result.raised = "ApplicationAlreadyStartedCORSError"
    /\ _cors_strategy = 0
    /\ _authentication_strategy = 2
    /\ Len(routes) = 1

(***************************************************************************)
(* Invocations in flight at the same time.                                 *)
(***************************************************************************)
\* the invocations begun and not over: the running one and the waiting ones
InFlight ==
    (IF inv_pc = "idle" THEN {} ELSE {Frame})
    \cup {suspended[k] : k \in 1..Len(suspended)}

\* what the binder at position k can give for a request
ValuesOf(k) ==
    IF binders[k] = _next_handler_binder THEN {NextHandler}
    ELSE {binders[k]}
         \cup (IF get_parameter_missing(heap[binders[k]]).raises THEN {}
               ELSE {get_parameter_missing(heap[binders[k]]).value})

\* the invocation holds one value per binder it is through with, each from
\* the binder at its position, and every read it made was of its own request
OwnValues(frame) ==
    /\ Len(frame.values) = frame.j - 1
    /\ \A k \in 1..Len(frame.values) : frame.values[k] \in ValuesOf(k)
    /\ \A k \in 1..Len(frame.sources) : frame.sources[k] = frame.request
    /\ Len(frame.sources) \in {Len(frame.values), Len(frame.values) + 1}

\* an invocation ends in this step
InvocationEnds == Len(responses') = Len(responses) + 1

\* C22: invocations of one synthesized wrapper that are in flight at the
\* same time do not interfere, whatever the order their awaits complete in:
\* each holds the values its own binders gave for its own request and calls
\* the handler with exactly these; no step of an invocation changes the
\* binder list or a binder; and a step of one invocation, the failure of a
\* binder included, leaves the waiting invocations as they are.
C22_NoInterference ==
    /\ [](IsWrapper =>
             /\ \A frame \in InFlight : OwnValues(frame)
             /\ \A f, g \in InFlight : f.request = g.request => f = g)
    /\ [][pc = "done" =>
             /\ UNCHANGED <<binders, body_binder, heap, singletons>>
             /\ Len(method_calls') > Len(method_calls) =>
                   /\ method_calls'[Len(method_calls')] = inv_values
                   /\ Len(inv_values) = Len(binders)
             /\ (inv_pc # "idle" /\ inv_pc' # "idle") => suspended' = suspended
             /\ InvocationEnds => suspended' = suspended]_vars

C22_Witness ==
    /\ IsWrapper
    /\ entered = 2
    /\ responses = <<"missing">>
    /\ inv_pc = "binding"
    /\ inv_request = 1
    /\ Len(inv_values) = 1
    /\ Len(method_calls) = 0
====
